---- MODULE Spec2Model ----
(***************************************************************************)
(* Model of the seal-rs frequency-domain watermark codec: the DCT and Haar *)
(* DWT embed/extract engines, the text/bit serialisation, the weighted     *)
(* vote over video frames and the multi-frame sampling loop.               *)
(*                                                                         *)
(* Floating-point samples and coefficients (f64 in the source) are modelled*)
(* as fixed-point integers in units of 1/FxOne; every product and quotient *)
(* rounds to the nearest unit, as every f64 operation rounds to the nearest*)
(* representable value.  Grids are indexed from 1 (the source indexes from *)
(* 0): cell [[i, j]] of the source is cells[i + 1][j + 1] here.            *)
(***************************************************************************)
EXTENDS Integers, Sequences, FiniteSets, TLC

VARIABLES
    algorithm,        \* which codec the call goes to: "DCT", "DWT" or "DCT_AUDIO"
    block_size,       \* DctWatermark.block_size
    levels,           \* DwtWatermark.levels
    data,             \* the caller's input grid (Array2<f64>)
    watermark,        \* the payload bits handed to embed
    strength,         \* the strength handed to embed (fixed point)
    embedded,         \* result of embed: NoResult until embed has run
    extracted,        \* result of extract on the embedded grid: NoResult until it has run
    fits              \* result of check_watermark_capacity: NoResult until it has run

codecVars ==
    <<algorithm, block_size, levels, data, watermark, strength, embedded, extracted, fits>>

VARIABLES
    text,             \* a String: the sequence of its chars (Unicode scalar values)
    bit_vec,          \* the bit sequence (Vec<u8>) under decode
    tampered,         \* "start" before string_to_bits produced bit_vec, then "clean", and
                      \* "damaged" once bit_vec was changed
    decoded           \* result of bits_to_string(bit_vec): NoResult until it has run

textVars == <<text, bit_vec, tampered, decoded>>

VARIABLES
    sample_frames,        \* how many frames the caller asks to sample
    watermark_length,     \* the expected watermark length in bytes
    confidence_threshold, \* Option<f64>: NoResult for None, else Ok(ratio)
    frame_indices,        \* the frame numbers the sampling loop walks through
    frame_outcomes,       \* what became of each frame the loop has handled, in order
    results,              \* Vec<(Vec<u8>, f64)>: the samples collected for the vote
    voted,                \* what vote_watermark_bits computed: NoResult until it has run
    warned,               \* the low-confidence warning was printed
    video_result,         \* result of extract_video_only: NoResult until it returns
    video_pc              \* where extract_video_only is: "idle", "sampling", "done" once
                          \* it returned from the frame logic, "io_failed" once it
                          \* returned because the temporary directory or the probe failed

videoVars ==
    <<sample_frames, watermark_length, confidence_threshold, frame_indices,
      frame_outcomes, results, voted, warned, video_result, video_pc>>

VARIABLES
    call,             \* a call of one function on its own: its name and arguments
    returned          \* what the call returned: NoResult until it has run

callVars == <<call, returned>>

\* Invocations running concurrently in one process
VARIABLES
    temp_dirs,   \* the directories under std::env::temp_dir(): name -> files, or absent
    threads      \* per invocation: its arguments, its position, its locals, its result

procVars == <<temp_dirs, threads>>

vars == <<codecVars, textVars, videoVars, callVars, procVars>>

-----------------------------------------------------------------------------
(* Fixed-point arithmetic *)

\* 1.0 in fixed point
FxOne == 2 ^ 10

Abs(x) == IF x < 0 THEN -x ELSE x

Max(a, b) == IF a >= b THEN a ELSE b

Min(a, b) == IF a <= b THEN a ELSE b

\* a / d rounded to the nearest integer
RDiv(a, d) == (a + (d \div 2)) \div d

\* product of two fixed-point numbers
FxMul(a, b) == RDiv(a * b, FxOne)

\* f64::clamp
Clamp(x, lo, hi) == IF x < lo THEN lo ELSE IF x > hi THEN hi ELSE x

\* usize::div_ceil
DivCeil(a, b) == IF a % b > 0 THEN (a \div b) + 1 ELSE a \div b

RECURSIVE SumTo(_, _, _)
\* F(lo) + ... + F(hi)
SumTo(F(_), lo, hi) == IF lo > hi THEN 0 ELSE F(lo) + SumTo(F, lo + 1, hi)

RECURSIVE Tab(_, _, _)
\* the sequence <<F(lo), ..., F(hi)>>
Tab(F(_), lo, hi) == IF lo > hi THEN <<>> ELSE <<F(lo)>> \o Tab(F, lo + 1, hi)

-----------------------------------------------------------------------------
(* Grids: Array2<f64> *)

NoResult == [kind |-> "none"]

Grid(r, c, cells) == [rows |-> r, cols |-> c, cells |-> cells]

\* the grid with r rows and c columns whose cell (i, j), counted from 1, is F(i, j)
MakeGrid(r, c, F(_, _)) ==
    LET Row(i) == LET Cell(j) == F(i, j) IN Tab(Cell, 1, c)
    IN  Grid(r, c, Tab(Row, 1, r))

\* data.slice(s![r0..r0+n, c0..c0+m]) with r0, c0 counted from 0
Slice(cells, r0, n, c0, m) ==
    LET Row(i) == LET Cell(j) == cells[r0 + i][c0 + j] IN Tab(Cell, 1, m)
    IN  Tab(Row, 1, n)

Transpose(m, r, c) ==
    LET Row(j) == LET Cell(i) == m[i][j] IN Tab(Cell, 1, r)
    IN  Tab(Row, 1, c)

Ok(v) == [kind |-> "ok", value |-> v]

Err(e) == [kind |-> "err", error |-> e]

\* what an embed call leaves behind: its return value and, for the record, the number
\* of coefficient assignments it had executed when it returned
Embedded(grid, writes) == [kind |-> "ok", value |-> grid, writes |-> writes]

Rejected(e, writes) == [kind |-> "err", error |-> e, writes |-> writes]

-----------------------------------------------------------------------------
(* The block transform: rustdct's unnormalised DCT-II and DCT-III *)

\* cos(m * pi / 32) in fixed point, m = 0..16
CosQ == <<1024, 1019, 1004, 980, 946, 903, 851, 792, 724, 650, 569, 483, 392, 297,
          200, 100, 0>>

\* cos(m * pi / 32) for any m >= 0
Cos32(m) ==
    LET k == m % 64
    IN  IF k <= 16 THEN CosQ[k + 1]
        ELSE IF k <= 32 THEN -CosQ[32 - k + 1]
        ELSE IF k <= 48 THEN -CosQ[k - 32 + 1]
        ELSE CosQ[64 - k + 1]

\* cos(pi * m / (2 * n)) for a transform length n that divides 16
CosN(m, n) == Cos32(m * (16 \div n))

\* process_dct2: X[k] = sum_n x[n] * cos(pi * (2n + 1) * k / (2N))
ProcessDct2(v) ==
    LET n == Len(v)
        X(k) == LET T(i) == v[i] * CosN((2 * (i - 1) + 1) * (k - 1), n)
                IN  RDiv(SumTo(T, 1, n), FxOne)
    IN  Tab(X, 1, n)

\* process_dct3: x[k] = X[0] / 2 + sum_{n >= 1} X[n] * cos(pi * n * (2k + 1) / (2N))
ProcessDct3(v) ==
    LET n == Len(v)
        X(k) == LET T(i) == v[i] * CosN((i - 1) * (2 * (k - 1) + 1), n)
                IN  RDiv((v[1] * FxOne) \div 2 + SumTo(T, 2, n), FxOne)
    IN  Tab(X, 1, n)

\* DctWatermark::dct_2d: every row, then every column
dct_2d(block) ==
    LET rows == Len(block)
        cols == Len(block[1])
        R(i) == ProcessDct2(block[i])
        byRow == Tab(R, 1, rows)
        t == Transpose(byRow, rows, cols)
        C(j) == ProcessDct2(t[j])
    IN  Transpose(Tab(C, 1, cols), cols, rows)

\* DctWatermark::idct_2d: every column, then every row, then divide by 2 * cols
idct_2d(dct_block) ==
    LET rows == Len(dct_block)
        cols == Len(dct_block[1])
        t == Transpose(dct_block, rows, cols)
        C(j) == ProcessDct3(t[j])
        byCol == Transpose(Tab(C, 1, cols), cols, rows)
        R(i) == ProcessDct3(byCol[i])
        byRow == Tab(R, 1, rows)
        Out(i) == LET Cell(j) == RDiv(byRow[i][j], 2 * cols) IN Tab(Cell, 1, cols)
    IN  Tab(Out, 1, rows)

-----------------------------------------------------------------------------
(* DctWatermark *)

\* padding with zeros, without the edge mirror of lines 46-62
PaddedCellZeros(g, i, j) ==
    IF i <= g.rows /\ j <= g.cols THEN g.cells[i][j] ELSE 0

\* DctWatermark::pad_to_block_size: the cell (i, j), counted from 1, of the padded grid
PaddedCell(g, i, j) ==
    LET mirror_j == IF j <= g.cols THEN j
                    ELSE g.cols - Min(j - 1 - g.cols, g.cols - 1)
        mirror_i == IF i <= g.rows THEN i
                    ELSE g.rows - Min(i - 1 - g.rows, g.rows - 1)
    IN  g.cells[mirror_i][mirror_j]

\* DctWatermark::pad_to_block_size
pad_to_block_size(g, bs) ==
    LET new_height == DivCeil(g.rows, bs) * bs
        new_width == DivCeil(g.cols, bs) * bs
        Cell(i, j) == PaddedCell(g, i, j)
    IN  IF new_height = g.rows /\ new_width = g.cols
        THEN g
        ELSE MakeGrid(new_height, new_width, Cell)

\* DctWatermark::unpad_from_block_size
unpad_from_block_size(padded, original_height, original_width) ==
    Grid(original_height, original_width,
         Slice(padded.cells, 0, original_height, 0, original_width))

\* DctWatermark::get_mid_frequency_positions, (u, v) counted from 0 as in the source
get_mid_frequency_positions ==
    << <<2, 1>>, <<1, 2>>, <<3, 1>>, <<2, 2>>, <<1, 3>>,
       <<4, 1>>, <<3, 2>>, <<2, 3>>, <<1, 4>>, <<5, 1>>,
       <<4, 2>>, <<3, 3>>, <<2, 4>>, <<1, 5>>, <<6, 1>>,
       <<5, 2>>, <<4, 3>>, <<3, 4>>, <<2, 5>>, <<1, 6>> >>

\* DctWatermark::calculate_block_variance
calculate_block_variance(block) ==
    LET n == Len(block)
        m == Len(block[1])
        RowSum(i) == LET C(j) == block[i][j] IN SumTo(C, 1, m)
        mean == RDiv(SumTo(RowSum, 1, n), n * m)
        RowSq(i) == LET C(j) == FxMul(block[i][j] - mean, block[i][j] - mean)
                    IN  SumTo(C, 1, m)
    IN  RDiv(SumTo(RowSq, 1, n), n * m)

\* DctWatermark::calculate_adaptive_threshold
calculate_adaptive_threshold(dct_block, base_strength, bs) ==
    LET positions == get_mid_frequency_positions
        inside == SelectSeq(positions, LAMBDA p : p[1] < bs /\ p[2] < bs)
        T(k) == Abs(dct_block[inside[k][1] + 1][inside[k][2] + 1])
        mean_coeff == RDiv(SumTo(T, 1, Len(inside)), Len(inside))
    IN  IF Len(inside) = 0
        THEN 2 * FxOne
        ELSE Clamp(RDiv(FxMul(mean_coeff, base_strength), 10), FxOne, 5 * FxOne)

\* EmbedCoefficient without the sign-forcing branches: the gentle adjustment only
EmbedCoefficientGentleOnly(coeff, bit, st, adaptive_threshold, perceptual_weight) ==
    LET target_change == FxMul(FxMul(st, Max(Abs(coeff), FxOne)), perceptual_weight)
    IN  IF bit = 1 THEN coeff + target_change ELSE coeff - target_change

\* DctWatermark::embed, lines 252-286: the new value of the selected coefficient
EmbedCoefficient(coeff, bit, st, adaptive_threshold, perceptual_weight) ==
    LET magnitude == Abs(coeff)
        target_change == FxMul(FxMul(st, Max(magnitude, FxOne)), perceptual_weight)
    IN  IF bit = 1
        THEN IF coeff + target_change >= adaptive_threshold
             THEN coeff + target_change
             ELSE Max(magnitude, adaptive_threshold) + RDiv(target_change, 2)
        ELSE IF coeff - target_change <= -adaptive_threshold
             THEN coeff - target_change
             ELSE -(Max(magnitude, adaptive_threshold) + RDiv(target_change, 2))

\* embed_audio_friendly_bit moving the coefficient by the gentle step without ever
\* changing its sign
EmbedAudioKeepSign(coeff, bit, st) ==
    LET base_change == FxMul(st, Max(Abs(coeff), FxOne))
        gentle == RDiv(base_change * 3, 10)
    IN  IF bit = 1 THEN coeff + gentle ELSE coeff - gentle

\* DctWatermark::embed_audio_friendly_bit: the new value of the selected coefficient
embed_audio_friendly_bit(coeff, bit, st) ==
    LET magnitude == Abs(coeff)
        audio_strength == st
        min_threshold == FxOne
        base_change == FxMul(audio_strength, Max(magnitude, min_threshold))
        gentle == RDiv(base_change * 3, 10)
    IN  IF bit = 1
        THEN IF coeff >= 0 THEN coeff + gentle ELSE magnitude + gentle
        ELSE IF coeff <= 0 THEN coeff - gentle ELSE -(magnitude + gentle)

\* the block at (block_y, block_x), counted from 0, of a padded grid
BlockAt(padded, idx, bs) ==
    LET blocks_w == padded.cols \div bs
    IN  Slice(padded.cells, (idx \div blocks_w) * bs, bs, (idx % blocks_w) * bs, bs)

\* the position taken without the wrap-around of `% positions.len()`
PositionWithoutWrap(idx) ==
    get_mid_frequency_positions[Min(idx, Len(get_mid_frequency_positions) - 1) + 1]

\* the position the idx-th bit goes to: positions[idx % positions.len()]
PositionOf(idx) ==
    get_mid_frequency_positions[(idx % Len(get_mid_frequency_positions)) + 1]

\* DctWatermark::embed, lines 234-289: block number idx (from 0) after embedding its bit
EmbedBlock(padded, wm, st, idx, bs) ==
    LET block == BlockAt(padded, idx, bs)
        dct_block == dct_2d(block)
        u == PositionOf(idx)[1]
        v == PositionOf(idx)[2]
        perceptual_weight == IF calculate_block_variance(block) < 10 * FxOne
                             THEN FxOne \div 2
                             ELSE FxOne
        marked == IF u < bs /\ v < bs
                  THEN [dct_block EXCEPT ![u + 1][v + 1] =
                           EmbedCoefficient(@, wm[idx + 1], st,
                               calculate_adaptive_threshold(dct_block, st, bs),
                               perceptual_weight)]
                  ELSE dct_block
    IN  idct_2d(marked)

\* DctWatermark::embed_audio_optimized, lines 415-438: block number idx after embedding
EmbedBlockAudio(padded, wm, st, idx, bs) ==
    LET dct_block == dct_2d(BlockAt(padded, idx, bs))
        u == PositionOf(idx)[1]
        v == PositionOf(idx)[2]
        marked == IF u < bs /\ v < bs
                  THEN [dct_block EXCEPT ![u + 1][v + 1] =
                           embed_audio_friendly_bit(@, wm[idx + 1], st)]
                  ELSE dct_block
    IN  idct_2d(marked)

\* the grid `result` after the loop: blocks 0 .. Len(wm)-1 replaced, in row-major order
WriteBlocks(padded, blocks, bs) ==
    LET blocks_w == padded.cols \div bs
        Cell(i, j) ==
            LET idx == ((i - 1) \div bs) * blocks_w + ((j - 1) \div bs)
            IN  IF idx < Len(blocks)
                THEN blocks[idx + 1][((i - 1) % bs) + 1][((j - 1) % bs) + 1]
                ELSE padded.cells[i][j]
    IN  MakeGrid(padded.rows, padded.cols, Cell)

\* the number of blocks embed and extract count: blocks_h * blocks_w
TotalBlocks(g, bs) ==
    LET padded_rows == DivCeil(g.rows, bs) * bs
        padded_cols == DivCeil(g.cols, bs) * bs
    IN  (padded_rows \div bs) * (padded_cols \div bs)

\* the number of iterations of the embed loop whose `u < block_size && v < block_size`
\* test passes, i.e. that assign the selected coefficient
CoefficientWrites(rounds, bs) ==
    Cardinality({k \in 0..(rounds - 1) : PositionOf(k)[1] < bs /\ PositionOf(k)[2] < bs})

\* DctWatermark::embed
DctEmbed(g, wm, st, bs) ==
    LET padded_data == pad_to_block_size(g, bs)
        total_blocks == TotalBlocks(g, bs)
        rounds == Min(Len(wm), total_blocks)
        B(k) == EmbedBlock(padded_data, wm, st, k - 1, bs)
        result == WriteBlocks(padded_data, Tab(B, 1, rounds), bs)
    IN  IF Len(wm) > total_blocks
        THEN Rejected("InvalidArgument", 0)
        ELSE Embedded(unpad_from_block_size(result, g.rows, g.cols),
                      CoefficientWrites(rounds, bs))

\* DctWatermark::embed_audio_optimized
embed_audio_optimized(g, wm, st, bs) ==
    LET padded_data == pad_to_block_size(g, bs)
        total_blocks == TotalBlocks(g, bs)
        rounds == Min(Len(wm), total_blocks)
        B(k) == EmbedBlockAudio(padded_data, wm, st, k - 1, bs)
        result == WriteBlocks(padded_data, Tab(B, 1, rounds), bs)
    IN  IF Len(wm) > total_blocks
        THEN Rejected("InvalidArgument", 0)
        ELSE Embedded(unpad_from_block_size(result, g.rows, g.cols),
                      CoefficientWrites(rounds, bs))

RECURSIVE ExtractLoop(_, _, _, _, _)
\* DctWatermark::extract, the loop over the blocks from block idx on
ExtractLoop(padded, expected_length, bs, idx, bits) ==
    IF Len(bits) >= expected_length \/ idx >= (padded.rows \div bs) * (padded.cols \div bs)
    THEN bits
    ELSE LET dct_block == dct_2d(BlockAt(padded, idx, bs))
             u == PositionOf(Len(bits))[1]
             v == PositionOf(Len(bits))[2]
             bit == IF dct_block[u + 1][v + 1] >= 0 THEN 1 ELSE 0
         IN  ExtractLoop(padded, expected_length, bs, idx + 1,
                         IF u < bs /\ v < bs THEN Append(bits, bit) ELSE bits)

\* DctWatermark::extract
DctExtract(g, expected_length, bs) ==
    LET padded_data == pad_to_block_size(g, bs)
        total_blocks == TotalBlocks(g, bs)
    IN  IF expected_length > total_blocks
        THEN Err("InvalidArgument")
        ELSE LET extracted_bits == ExtractLoop(padded_data, expected_length, bs, 0, <<>>)
             IN  Ok(SubSeq(extracted_bits, 1, Min(Len(extracted_bits), expected_length)))

-----------------------------------------------------------------------------
(* DwtWatermark *)

\* 2.0_f64.sqrt() in fixed point
Sqrt2 == 1448

\* x / 2.0_f64.sqrt()
DivSqrt2(x) == RDiv(x * FxOne, Sqrt2)

RECURSIVE BitAnd(_, _)
\* a & b on unsigned integers
BitAnd(a, b) ==
    IF a = 0 \/ b = 0 THEN 0
    ELSE 2 * BitAnd(a \div 2, b \div 2) + (IF a % 2 = 1 /\ b % 2 = 1 THEN 1 ELSE 0)

\* the test `n < 2 || (n & (n - 1)) != 0` of haar_forward_1d and haar_inverse_1d
NotTransformable(n) == n < 2 \/ BitAnd(n, n - 1) # 0

\* DwtWatermark::haar_forward_1d
haar_forward_1d(v) ==
    LET n == Len(v)
        half == n \div 2
        R(k) == IF k <= half
                THEN DivSqrt2(v[2 * (k - 1) + 1] + v[2 * (k - 1) + 2])
                ELSE DivSqrt2(v[2 * (k - half - 1) + 1] - v[2 * (k - half - 1) + 2])
    IN  IF NotTransformable(n) THEN v ELSE Tab(R, 1, n)

\* DwtWatermark::haar_inverse_1d
haar_inverse_1d(v) ==
    LET n == Len(v)
        half == n \div 2
        R(k) == LET i == (k - 1) \div 2
                    avg == DivSqrt2(v[i + 1])
                    diff == DivSqrt2(v[half + i + 1])
                IN  IF (k - 1) % 2 = 0 THEN avg + diff ELSE avg - diff
    IN  IF NotTransformable(n) THEN v ELSE Tab(R, 1, n)

\* DwtWatermark::haar_forward_2d: every row, then every column
haar_forward_2d(m, rows, cols) ==
    LET R(i) == haar_forward_1d(m[i])
        t == Transpose(Tab(R, 1, rows), rows, cols)
        C(j) == haar_forward_1d(t[j])
    IN  Transpose(Tab(C, 1, cols), cols, rows)

\* DwtWatermark::haar_inverse_2d: every column, then every row
haar_inverse_2d(m, rows, cols) ==
    LET t == Transpose(m, rows, cols)
        C(j) == haar_inverse_1d(t[j])
        byCol == Transpose(Tab(C, 1, cols), cols, rows)
        R(i) == haar_inverse_1d(byCol[i])
    IN  Tab(R, 1, rows)

\* result.slice_mut(s![0..rows, 0..cols]).assign(&sub)
AssignTopLeft(g, sub, rows, cols) ==
    LET Cell(i, j) == IF i <= rows /\ j <= cols THEN sub[i][j] ELSE g.cells[i][j]
    IN  MakeGrid(g.rows, g.cols, Cell)

RECURSIVE ForwardLevels(_, _, _, _)
\* DwtWatermark::multilevel_forward, the loop with `left` iterations to go
ForwardLevels(g, rows, cols, left) ==
    IF left = 0 \/ rows < 2 \/ cols < 2
    THEN g
    ELSE ForwardLevels(
             AssignTopLeft(g, haar_forward_2d(Slice(g.cells, 0, rows, 0, cols), rows, cols),
                           rows, cols),
             rows \div 2, cols \div 2, left - 1)

\* DwtWatermark::multilevel_forward
multilevel_forward(g, lv) == ForwardLevels(g, g.rows, g.cols, lv)

RECURSIVE InverseLevels(_, _, _)
\* DwtWatermark::multilevel_inverse, the loop over level_sizes.iter().rev(): level k
\* (from lv down to 1) has size (orig_rows / 2^(k-1), orig_cols / 2^(k-1))
InverseLevels(g, k, lv) ==
    IF k = 0
    THEN g
    ELSE LET rows == g.rows \div (2 ^ (k - 1))
             cols == g.cols \div (2 ^ (k - 1))
         IN  InverseLevels(
                 IF rows < 2 \/ cols < 2
                 THEN g
                 ELSE AssignTopLeft(g,
                          haar_inverse_2d(Slice(g.cells, 0, rows, 0, cols), rows, cols),
                          rows, cols),
                 k - 1, lv)

RECURSIVE InverseLevelsBreak(_, _, _)
\* the loop of multilevel_inverse with a `break` where line 157 has `continue`
InverseLevelsBreak(g, k, lv) ==
    IF k = 0
    THEN g
    ELSE LET rows == g.rows \div (2 ^ (k - 1))
             cols == g.cols \div (2 ^ (k - 1))
         IN  IF rows < 2 \/ cols < 2
             THEN g
             ELSE InverseLevelsBreak(
                      AssignTopLeft(g,
                          haar_inverse_2d(Slice(g.cells, 0, rows, 0, cols), rows, cols),
                          rows, cols),
                      k - 1, lv)

\* multilevel_inverse stopping at the first level that is too small
MultilevelInverseBreak(g, lv) == InverseLevelsBreak(g, lv, lv)

\* DwtWatermark::multilevel_inverse
multilevel_inverse(g, lv) == InverseLevels(g, lv, lv)

\* the pairs <<i, j>> for i in r0 .. r1-1 and j in c0 .. c1-1, row by row
Window(r0, r1, c0, c1) ==
    LET n == IF r1 > r0 /\ c1 > c0 THEN (r1 - r0) * (c1 - c0) ELSE 0
        P(k) == <<r0 + ((k - 1) \div (c1 - c0)), c0 + ((k - 1) % (c1 - c0))>>
    IN  Tab(P, 1, n)

\* DwtWatermark::get_high_freq_positions, (row, col) counted from 0 as in the source
get_high_freq_positions(rows, cols) ==
    LET half_rows == rows \div 2
        half_cols == cols \div 2
    IN  Window(half_rows, Min(rows, half_rows + 4), half_cols, Min(cols, half_cols + 4))
        \o Window(0, Min(half_rows, 4), half_cols, Min(cols, half_cols + 4))
        \o Window(half_rows, Min(rows, half_rows + 4), 0, Min(half_cols, 4))

\* the shape test of DwtWatermark::embed and ::extract, for rows, cols >= 1
NotPowerOfTwo(rows, cols) == BitAnd(rows, rows - 1) # 0 \/ BitAnd(cols, cols - 1) # 0

RECURSIVE DwtEmbedLoop(_, _, _, _, _)
\* DwtWatermark::embed, lines 235-250: the coefficients after bits i .. Len(wm) are embedded
DwtEmbedLoop(cells, positions, wm, st, i) ==
    IF i > Len(wm) \/ i > Len(positions)
    THEN cells
    ELSE LET row == positions[i][1]
             col == positions[i][2]
             coeff == cells[row + 1][col + 1]
             new == IF wm[i] = 1
                    THEN coeff + FxMul(st, Abs(coeff))
                    ELSE coeff - FxMul(st, Abs(coeff))
             written == [cells EXCEPT ![row + 1][col + 1] = new]
         IN  \* the test is always true: it has the write evaluated before the next one
             IF Len(written) = Len(cells)
             THEN DwtEmbedLoop(written, positions, wm, st, i + 1)
             ELSE cells

\* DwtWatermark::embed, lines 223-250: the coefficient grid before and after the bits
\* are embedded
DwtCoefficients(g, wm, st, lv) ==
    LET dwt_data == multilevel_forward(g, lv)
        positions == get_high_freq_positions(g.rows, g.cols)
    IN  [before |-> dwt_data.cells,
         after |-> DwtEmbedLoop(dwt_data.cells, positions, wm, st, 1)]

\* DwtEmbed without the payload-length check: the loop stops at the last position
DwtEmbedUnchecked(g, wm, st, lv) ==
    LET dwt_data == multilevel_forward(g, lv)
        positions == get_high_freq_positions(g.rows, g.cols)
        marked == Grid(g.rows, g.cols, DwtEmbedLoop(dwt_data.cells, positions, wm, st, 1))
    IN  IF NotPowerOfTwo(g.rows, g.cols) THEN Rejected("InvalidArgument", 0)
        ELSE Embedded(multilevel_inverse(marked, lv), Min(Len(wm), Len(positions)))

\* DwtWatermark::embed
DwtEmbed(g, wm, st, lv) ==
    LET dwt_data == multilevel_forward(g, lv)
        positions == get_high_freq_positions(g.rows, g.cols)
        marked == Grid(g.rows, g.cols, DwtEmbedLoop(dwt_data.cells, positions, wm, st, 1))
    IN  IF NotPowerOfTwo(g.rows, g.cols) THEN Rejected("InvalidArgument", 0)
        ELSE IF Len(wm) > Len(positions) THEN Rejected("InvalidArgument", 0)
        ELSE Embedded(multilevel_inverse(marked, lv), Min(Len(wm), Len(positions)))

\* DwtWatermark::extract
DwtExtract(g, expected_length, lv) ==
    LET dwt_data == multilevel_forward(g, lv)
        positions == get_high_freq_positions(g.rows, g.cols)
        Bit(i) == IF dwt_data.cells[positions[i][1] + 1][positions[i][2] + 1] >= 0
                  THEN 1 ELSE 0
    IN  IF NotPowerOfTwo(g.rows, g.cols) THEN Err("InvalidArgument")
        ELSE IF expected_length > Len(positions) THEN Err("InvalidArgument")
        ELSE Ok(Tab(Bit, 1, expected_length))

-----------------------------------------------------------------------------
(* Capacity check *)

\* A u32 is kept as the pair <<high 16 bits, low 16 bits>>, so that the products of
\* lines 339 and 345 are computed at their width.

\* the four base-256 digits of a dimension, lowest first
Digits(n) == <<n % 256, (n \div 256) % 256, (n \div 65536) % 256, n \div 16777216>>

\* u32::overflowing_mul: the product modulo 2^32 and whether the full product is larger
overflowing_mul(a, b) ==
    LET x == Digits(a)
        y == Digits(b)
        Column(k) == LET Term(i) == IF k + 2 - i \in 1..4 THEN x[i] * y[k + 2 - i] ELSE 0
                     IN  SumTo(Term, 1, 4)
        s0 == Column(0)
        s1 == Column(1) + (s0 \div 256)
        s2 == Column(2) + (s1 \div 256)
        s3 == Column(3) + (s2 \div 256)
    IN  [value |-> <<(s3 % 256) * 256 + (s2 % 256), (s1 % 256) * 256 + (s0 % 256)>>,
         overflowed |-> (s3 \div 256) + Column(4) + Column(5) + Column(6) > 0]

\* a u32 divided by 4
U32Div4(v) == <<v[1] \div 4, (v[1] % 4) * 16384 + (v[2] \div 4)>>

\* a u32 below 2^31 as a number
U32Value(v) == v[1] * 65536 + v[2]

\* a <= b for two u32 values
U32LessEq(a, b) == a[1] < b[1] \/ (a[1] = b[1] /\ a[2] <= b[2])

\* str::contains for the algorithm names tried and the tags "DCT" and "DWT"
ContainsTag(name, tag) ==
    <<name, tag>> \in {<<"DCT", "DCT">>, <<"DWT", "DWT">>,
                       <<"DWT-DCT", "DCT">>, <<"DWT-DCT", "DWT">>}

\* ImageWatermarker::check_watermark_capacity, lines 335-348: the u32 the match arms
\* compute in a build without overflow checks, and whether a product overflowed
CapacityU32(width, height, name) ==
    IF ContainsTag(name, "DCT")
    THEN LET blocks_w == DivCeil(width, 8)
             blocks_h == DivCeil(height, 8)
         IN  overflowing_mul(blocks_w, blocks_h)
    ELSE LET padded_width == IF width % 2 = 0 THEN width ELSE width + 1
             padded_height == IF height % 2 = 0 THEN height ELSE height + 1
             product == overflowing_mul(padded_width, padded_height)
         IN  [value |-> U32Div4(product.value), overflowed |-> product.overflowed]

\* Capacity counting whole blocks only (width / 8 instead of width.div_ceil(8))
CapacityWholeBlocks(width, height, name) ==
    IF name = "DCT"
    THEN Ok((width \div 8) * (height \div 8))
    ELSE IF name = "DWT"
    THEN Ok((width * height) \div 4)
    ELSE Err("Algorithm")

\* ImageWatermarker::check_watermark_capacity, lines 335-350: the capacity for a name,
\* for dimensions whose product does not overflow
Capacity(width, height, name) ==
    IF ContainsTag(name, "DCT") \/ ContainsTag(name, "DWT")
    THEN Ok(U32Value(CapacityU32(width, height, name).value))
    ELSE Err("Algorithm")

\* ImageWatermarker::check_watermark_capacity, with nbits = watermark_bits.len()
check_watermark_capacity(width, height, nbits, name) ==
    LET capacity == Capacity(width, height, name)
    IN  IF capacity.kind = "err" THEN capacity ELSE Ok(nbits <= capacity.value)

-----------------------------------------------------------------------------
(* Strings and UTF-8: str::bytes, String::from_utf8 *)

\* the UTF-8 encoding of one char
Utf8Encode(cp) ==
    IF cp < 128 THEN <<cp>>
    ELSE IF cp < 2048 THEN <<192 + (cp \div 64), 128 + (cp % 64)>>
    ELSE IF cp < 65536
    THEN <<224 + (cp \div 4096), 128 + ((cp \div 64) % 64), 128 + (cp % 64)>>
    ELSE <<240 + (cp \div 262144), 128 + ((cp \div 4096) % 64),
           128 + ((cp \div 64) % 64), 128 + (cp % 64)>>

RECURSIVE Utf8Bytes(_)
\* str::bytes / str::as_bytes: the bytes of a String
Utf8Bytes(str) == IF str = <<>> THEN <<>> ELSE Utf8Encode(Head(str)) \o Utf8Bytes(Tail(str))

\* the number of bytes a sequence led by byte b must have; 0 for a byte that leads none
Utf8Width(b) ==
    IF b < 128 THEN 1
    ELSE IF b >= 194 /\ b <= 223 THEN 2
    ELSE IF b >= 224 /\ b <= 239 THEN 3
    ELSE IF b >= 240 /\ b <= 244 THEN 4
    ELSE 0

IsCont(b) == b >= 128 /\ b <= 191

\* whether byte b may follow the lead byte `lead` as the second byte of its sequence
SecondByteOk(lead, b) ==
    CASE lead = 224 -> b >= 160 /\ b <= 191
      [] lead = 237 -> b >= 128 /\ b <= 159
      [] lead = 240 -> b >= 144 /\ b <= 191
      [] lead = 244 -> b >= 128 /\ b <= 143
      [] OTHER -> IsCont(b)

\* the number of bytes of the well-formed sequence at position p of bytes, 0 if none
ValidLenAt(bytes, p) ==
    LET w == Utf8Width(bytes[p])
    IN  IF w = 0 \/ p + w - 1 > Len(bytes) THEN 0
        ELSE IF w = 1 THEN 1
        ELSE IF ~SecondByteOk(bytes[p], bytes[p + 1]) THEN 0
        ELSE IF \A k \in 2..(w - 1) : IsCont(bytes[p + k]) THEN w
        ELSE 0

\* the char a well-formed sequence of w bytes at position p encodes
CharAt(bytes, p, w) ==
    CASE w = 1 -> bytes[p]
      [] w = 2 -> (bytes[p] % 32) * 64 + (bytes[p + 1] % 64)
      [] w = 3 -> (bytes[p] % 16) * 4096 + (bytes[p + 1] % 64) * 64 + (bytes[p + 2] % 64)
      [] w = 4 -> (bytes[p] % 8) * 262144 + (bytes[p + 1] % 64) * 4096
                      + (bytes[p + 2] % 64) * 64 + (bytes[p + 3] % 64)

RECURSIVE DecodeFrom(_, _, _)
DecodeFrom(bytes, p, acc) ==
    IF p > Len(bytes) THEN Ok(acc)
    ELSE LET w == ValidLenAt(bytes, p)
         IN  IF w = 0 THEN Err("FromUtf8Error")
             ELSE DecodeFrom(bytes, p + w, Append(acc, CharAt(bytes, p, w)))

\* String::from_utf8
FromUtf8(bytes) == DecodeFrom(bytes, 1, <<>>)

-----------------------------------------------------------------------------
(* WatermarkUtils: text <-> bits *)

\* WatermarkUtils::string_to_bits with the bits of each byte in ascending order
StringToBitsLsbFirst(str) ==
    LET bytes == Utf8Bytes(str)
        B(k) == (bytes[((k - 1) \div 8) + 1] \div (2 ^ ((k - 1) % 8))) % 2
    IN  Tab(B, 1, 8 * Len(bytes))

\* WatermarkUtils::string_to_bits: for i in (0..8).rev() push (byte >> i) & 1
string_to_bits(str) ==
    LET bytes == Utf8Bytes(str)
        B(k) == (bytes[((k - 1) \div 8) + 1] \div (2 ^ (7 - ((k - 1) % 8)))) % 2
    IN  Tab(B, 1, 8 * Len(bytes))

\* the loop over bits.chunks(8): byte |= 1 << (7 - i) for every bit != 0 of the chunk
ChunksToBytes(bs) ==
    LET n == (Len(bs) + 7) \div 8
        Byte(k) == LET hi == Min(8, Len(bs) - 8 * (k - 1))
                       T(i) == IF bs[8 * (k - 1) + i] # 0 THEN 2 ^ (8 - i) ELSE 0
                   IN  SumTo(T, 1, hi)
    IN  Tab(Byte, 1, n)

\* WatermarkUtils::bits_to_string without the length test
BitsToStringAnyLength(bs) ==
    LET res == FromUtf8(ChunksToBytes(bs))
    IN  IF res.kind = "err" THEN Err("InvalidWatermark") ELSE res

\* WatermarkUtils::bits_to_string
bits_to_string(bs) ==
    IF Len(bs) % 8 # 0
    THEN Err("InvalidWatermark")
    ELSE LET res == FromUtf8(ChunksToBytes(bs))
         IN  IF res.kind = "err" THEN Err("InvalidWatermark") ELSE res

-----------------------------------------------------------------------------
(* Confidence arithmetic: quotients of quality weights.  A weight is a fixed-point    *)
(* number; a confidence is kept as the exact fraction num/den in lowest terms, and    *)
(* 0.0/0.0, which f64 evaluates to NaN, is the fraction with den = 0.                 *)

RECURSIVE Gcd(_, _)
Gcd(a, b) == IF b = 0 THEN a ELSE Gcd(b, a % b)

NaN == [num |-> 0, den |-> 0]

IsNaN(x) == x.den = 0

\* n as f64 / d as f64 for integers n >= 0 and d >= 0 that are not n > 0 = d
F64Div(n, d) ==
    IF d = 0 THEN NaN
    ELSE LET g == Gcd(n, d) IN [num |-> n \div g, den |-> d \div g]

\* x + y; NaN when either is NaN
F64Add(x, y) ==
    IF IsNaN(x) \/ IsNaN(y) THEN NaN
    ELSE LET common == (x.den \div Gcd(x.den, y.den)) * y.den
         IN  F64Div(x.num * (common \div x.den) + y.num * (common \div y.den), common)

\* x / n for an integer n > 0
F64DivInt(x, n) == IF IsNaN(x) THEN NaN ELSE F64Div(x.num, x.den * n)

\* x < y: false when either is NaN
F64Less(x, y) == ~IsNaN(x) /\ ~IsNaN(y) /\ x.num * y.den < y.num * x.den

-----------------------------------------------------------------------------
(* VideoWatermarker: frame sampling, frame quality and the weighted vote *)

\* sort_unstable() then dedup(): the elements of v in ascending order, each once
RECURSIVE SortDedup(_)
SortDedup(set) ==
    IF set = {} THEN <<>>
    ELSE LET m == CHOOSE x \in set : \A y \in set : x <= y
         IN  <<m>> \o SortDedup(set \ {m})

GenerateUnclamped(sample_count, skip_frames, max_frames) ==
    IF sample_count = 0 THEN <<>>
    ELSE LET available_frames == Max(max_frames - skip_frames, 0)
         IN  IF available_frames = 0 THEN <<skip_frames>>
             ELSE IF sample_count = 1 THEN <<skip_frames + (available_frames \div 2)>>
             ELSE LET At(k) == skip_frames
                                 + (((k - 1) * available_frames) \div (sample_count - 1))
                  IN  Tab(At, 1, sample_count)

generate_sample_frame_indices(sample_count, skip_frames, max_frames) ==
    IF sample_count = 0 THEN <<>>
    ELSE LET available_frames == Max(max_frames - skip_frames, 0)
         IN  IF available_frames = 0 THEN <<skip_frames>>
             ELSE IF sample_count = 1 THEN <<skip_frames + (available_frames \div 2)>>
             ELSE LET At(k) == Min(skip_frames
                                     + (((k - 1) * available_frames) \div (sample_count - 1)),
                                   max_frames - 1)
                  IN  Tab(At, 1, sample_count)

\* the frame numbers extract_multiple_frames_watermark walks through
\* sort_unstable(), dedup() and truncate(sample_frames) of the generated indices
SortedSample(generated, n) ==
    LET frames == SortDedup({generated[k] : k \in 1..Len(generated)})
    IN  IF Len(frames) > n THEN SubSeq(frames, 1, n) ELSE frames

SampledIndices(n) ==
    LET skip_frames == 5
    IN  SortedSample(generate_sample_frame_indices(n, skip_frames, skip_frames + n), n)

RECURSIVE ISqrtIn(_, _, _)
\* the largest r in lo..hi with r * r <= n
ISqrtIn(n, lo, hi) ==
    IF lo = hi THEN lo
    ELSE LET mid == (lo + hi + 1) \div 2
         IN  IF mid * mid <= n THEN ISqrtIn(n, mid, hi) ELSE ISqrtIn(n, lo, mid - 1)

\* f64::sqrt of the integer n, in fixed point
FxSqrt(n) == ISqrtIn(n * FxOne * FxOne, 0, 32 * FxOne)

\* the quality of a grey frame of at least 3 x 3 pixels, whose cells are luma values
assess_frame_quality(gray) ==
    LET width == gray.cols
        height == gray.rows
        pixel_count == width * height
        RowSum(i) == LET V(j) == gray.cells[i][j] IN SumTo(V, 1, width)
        RowSq(i) == LET V(j) == gray.cells[i][j] * gray.cells[i][j] IN SumTo(V, 1, width)
        sum == SumTo(RowSum, 1, height)
        sum_sq == SumTo(RowSq, 1, height)
        mean == RDiv(sum * FxOne, pixel_count)
        variance == RDiv(sum_sq * FxOne, pixel_count) - FxMul(mean, mean)
        Gradient(y, x) ==
            LET dx == gray.cells[y][x + 1] - gray.cells[y][x - 1]
                dy == gray.cells[y + 1][x] - gray.cells[y - 1][x]
            IN  FxSqrt(dx * dx + dy * dy)
        RowGradient(y) == LET G(x) == Gradient(y, x) IN SumTo(G, 2, width - 1)
        gradient_sum == SumTo(RowGradient, 2, height - 1)
        sharpness == RDiv(gradient_sum, (width - 2) * (height - 2))
    IN  FxMul(variance, RDiv(7 * FxOne, 10)) + FxMul(sharpness, RDiv(3 * FxOne, 10))

\* VideoWatermarker::string_to_bits: expected_length bytes of the text, padded with
\* zero bytes, each byte most significant bit first
video_string_to_bits(str, expected_length) ==
    LET bytes == Utf8Bytes(str)
        Bit(k) == LET i == (k - 1) \div 8
                      bit_pos == (k - 1) % 8
                      byte == IF i < Len(bytes) THEN bytes[i + 1] ELSE 0
                  IN  (byte \div (2 ^ (7 - bit_pos))) % 2
    IN  Tab(Bit, 1, 8 * expected_length)

RECURSIVE LossyFrom(_, _, _)
\* String::from_utf8_lossy: every maximal ill-formed prefix becomes one U+FFFD
LossyFrom(bytes, p, acc) ==
    IF p > Len(bytes) THEN acc
    ELSE LET w == Utf8Width(bytes[p])
             Has(k) == p + k <= Len(bytes)
             bad == IF w = 0 THEN 1
                    ELSE IF w = 1 THEN 0
                    ELSE IF ~Has(1) \/ ~SecondByteOk(bytes[p], bytes[p + 1]) THEN 1
                    ELSE IF w = 2 THEN 0
                    ELSE IF ~Has(2) \/ ~IsCont(bytes[p + 2]) THEN 2
                    ELSE IF w = 3 THEN 0
                    ELSE IF ~Has(3) \/ ~IsCont(bytes[p + 3]) THEN 3
                    ELSE 0
         IN  IF bad > 0 THEN LossyFrom(bytes, p + bad, Append(acc, 65533))
             ELSE LossyFrom(bytes, p + w, Append(acc, CharAt(bytes, p, w)))

FromUtf8Lossy(bytes) == LossyFrom(bytes, 1, <<>>)

\* VideoWatermarker::bits_to_string: the bytes up to expected_length and up to the
\* first zero byte, decoded leniently
video_bits_to_string(bs, expected_length) ==
    LET bytes == ChunksToBytes(bs)
        cut == SubSeq(bytes, 1, Min(expected_length, Len(bytes)))
        nulls == {k \in 1..Len(cut) : cut[k] = 0}
        upto == IF nulls = {} THEN Len(cut)
                ELSE (CHOOSE k \in nulls : \A m \in nulls : k <= m) - 1
    IN  FromUtf8Lossy(SubSeq(cut, 1, upto))

\* one (bits, quality) element of the frame results
Sample(bs, quality) == [bits |-> bs, quality |-> quality]

RECURSIVE VoteLoop(_, _, _, _, _, _)
\* the loop over bit_votes from position i on; bit_confidences collects the
\* bit_confidence of every position that had votes
VoteLoop(res, i, npos, final_bits, bit_confidences, confidence_sum) ==
    IF i > npos
    THEN [final_bits |-> final_bits, bit_confidences |-> bit_confidences,
          confidence_sum |-> confidence_sum]
    ELSE LET voters == {k \in 1..Len(res) : Len(res[k].bits) >= i}
             W(k) == IF k \in voters THEN res[k].quality ELSE 0
             W0(k) == IF k \in voters /\ res[k].bits[i] = 0 THEN res[k].quality ELSE 0
             W1(k) == IF k \in voters /\ res[k].bits[i] # 0 THEN res[k].quality ELSE 0
             total_weight == SumTo(W, 1, Len(res))
             weight_0 == SumTo(W0, 1, Len(res))
             weight_1 == SumTo(W1, 1, Len(res))
             winning_bit == IF weight_1 > weight_0 THEN 1 ELSE 0
             bit_confidence == F64Div(Max(weight_1, weight_0), total_weight)
         IN  IF voters = {}
             THEN VoteLoop(res, i + 1, npos, Append(final_bits, 0), bit_confidences,
                           confidence_sum)
             ELSE VoteLoop(res, i + 1, npos, Append(final_bits, winning_bit),
                           Append(bit_confidences, bit_confidence),
                           F64Add(confidence_sum, bit_confidence))

SampleEveryFrame(res, outcome, expected_length) ==
    IF outcome.kind \in {"ok", "extract_failed"}
    THEN Append(res, Sample(video_string_to_bits(IF outcome.kind = "ok" THEN outcome.text
                                                 ELSE <<>>, expected_length),
                            IF outcome.kind = "ok" THEN assess_frame_quality(outcome.gray)
                            ELSE 0))
    ELSE res

\* one frame of the sampling loop: a frame that was decoded, assessed and read adds
\* one sample; any failure on the way skips the frame
SampleOneFrame(res, outcome, expected_length) ==
    IF outcome.kind = "ok"
    THEN Append(res, Sample(video_string_to_bits(outcome.text, expected_length),
                            assess_frame_quality(outcome.gray)))
    ELSE res

\* the return value of extract_multiple_frames_watermark
SampledResults(res) ==
    IF res = <<>> THEN Err("ProcessingError") ELSE Ok(res)

\* the returned (String, f64) with, for the record, the final_bits and the
\* bit_confidence values it was computed from
vote_watermark_bits(res, expected_length) ==
    IF res = <<>>
    THEN [text |-> <<>>, confidence |-> F64Div(0, 1), final_bits |-> <<>>,
          bit_confidences |-> <<>>]
    ELSE LET out == VoteLoop(res, 1, expected_length * 8, <<>>, <<>>, F64Div(0, 1))
             overall_confidence ==
                 IF out.final_bits = <<>> THEN F64Div(0, 1)
                 ELSE F64DivInt(out.confidence_sum, Len(out.final_bits))
         IN  [text |-> video_bits_to_string(out.final_bits, expected_length),
              confidence |-> overall_confidence,
              final_bits |-> out.final_bits,
              bit_confidences |-> out.bit_confidences]

-----------------------------------------------------------------------------
(* Idle components: a specification exercises one component and leaves the others *)

CodecIdle ==
    /\ algorithm = "DCT"
    /\ block_size = 8
    /\ levels = 1
    /\ data = Grid(0, 0, <<>>)
    /\ watermark = <<>>
    /\ strength = 0
    /\ embedded = NoResult
    /\ extracted = NoResult
    /\ fits = NoResult

TextIdle ==
    /\ text = <<>>
    /\ bit_vec = <<>>
    /\ tampered = "start"
    /\ decoded = NoResult

VideoIdle ==
    /\ sample_frames = 0
    /\ watermark_length = 0
    /\ confidence_threshold = NoResult
    /\ frame_indices = <<>>
    /\ frame_outcomes = <<>>
    /\ results = <<>>
    /\ voted = NoResult
    /\ warned = FALSE
    /\ video_result = NoResult
    /\ video_pc = "idle"

CallIdle ==
    /\ call = NoResult
    /\ returned = NoResult

\* no invocation is running
ProcIdle ==
    /\ temp_dirs = <<>>
    /\ threads = <<>>

-----------------------------------------------------------------------------
(* The codec as a state machine: one embed call, then extract on its output *)

\* largest grid side
MaxDim == 16

\* longest payload embedded into grids of every content
MaxBits == 4

\* grid sides: the small ones, the multiples of the block size and their successors
DimSet == {d \in 1..MaxDim : d \in {1, 2, 4} \/ d % 8 \in {0, 1}}

Algorithms == {"DCT", "DWT", "DCT_AUDIO"}

\* WatermarkAlgorithm::name
NameOf(alg) == IF alg = "DWT" THEN "DWT" ELSE "DCT"

\* sample (i, j) of test content p: flat, image-like in [0, 1], audio-like in [-1, 1],
\* and a high-contrast grid in [-8, 8]
Pixel(p, i, j) ==
    CASE p = 1 -> FxOne \div 2
      [] p = 2 -> (i * 37 + j * 101 + i * j * 7) % (FxOne + 1)
      [] p = 3 -> ((i * i * 53 + j * 29) % (2 * FxOne + 1)) - FxOne
      [] p = 4 -> (((i * 37 + j * j * 11) % 17) - 8) * FxOne

Patterns == 1..4

TestGrid(p, r, c) == LET F(i, j) == Pixel(p, i, j) IN MakeGrid(r, c, F)

\* strengths: 0, the command line's default 0.1, and 1
Strengths == {0, FxOne \div 10, FxOne}

\* the payload of n bits that alternates, starting with `first`
Alternating(n, first) == LET B(k) == (first + k - 1) % 2 IN Tab(B, 1, n)

\* whether the grid shape needs no padding (DCT) or passes the shape test (DWT)
ShapeFits(alg, r, c) ==
    IF alg = "DWT" THEN ~NotPowerOfTwo(r, c) ELSE r % 8 = 0 /\ c % 8 = 0

\* payload lengths at the capacity boundaries of an r x c grid, and the empty payload
BoundaryLengths(r, c) ==
    {0,
     Capacity(c, r, "DCT").value, Capacity(c, r, "DCT").value + 1,
     Capacity(c, r, "DWT").value, Capacity(c, r, "DWT").value + 1,
     Len(get_high_freq_positions(r, c)), Len(get_high_freq_positions(r, c)) + 1}

\* DctWatermark::new(), DwtWatermark::new(); every content on the grids that need no
\* padding, and the image-like content at the capacity boundaries of every grid
InitCodec ==
    /\ algorithm \in Algorithms
    /\ block_size = 8
    /\ levels = 1
    /\ \E r \in DimSet, c \in DimSet, p \in Patterns :
          /\ data = TestGrid(p, r, c)
          /\ \/ /\ ShapeFits(algorithm, r, c)
                /\ r = c \/ p = 2
                /\ strength \in Strengths
                /\ \E n \in 1..MaxBits, first \in {0, 1} : watermark = Alternating(n, first)
             \/ /\ p = 2
                /\ strength = FxOne \div 10
                /\ \E n \in BoundaryLengths(r, c) : watermark = Alternating(n, 1)
    /\ embedded = NoResult
    /\ extracted = NoResult
    /\ fits = NoResult
    /\ TextIdle
    /\ VideoIdle
    /\ CallIdle
    /\ ProcIdle

\* algorithm.embed(&data, &watermark, strength)
Embed ==
    /\ fits # NoResult
    /\ embedded = NoResult
    /\ embedded' = CASE algorithm = "DCT" -> DctEmbed(data, watermark, strength, block_size)
                     [] algorithm = "DCT_AUDIO" ->
                            embed_audio_optimized(data, watermark, strength, block_size)
                     [] algorithm = "DWT" -> DwtEmbed(data, watermark, strength, levels)
    /\ UNCHANGED <<algorithm, block_size, levels, data, watermark, strength, extracted, fits>>
    /\ UNCHANGED <<textVars, videoVars, callVars, procVars>>

\* algorithm.extract(&embedded, watermark.len()); audio uses the plain DCT extractor
Extract ==
    /\ embedded.kind = "ok"
    /\ extracted = NoResult
    /\ extracted' = IF algorithm = "DWT"
                    THEN DwtExtract(embedded.value, Len(watermark), levels)
                    ELSE DctExtract(embedded.value, Len(watermark), block_size)
    /\ UNCHANGED <<algorithm, block_size, levels, data, watermark, strength, embedded, fits>>
    /\ UNCHANGED <<textVars, videoVars, callVars, procVars>>

\* ImageWatermarker::check_watermark_capacity on the same grid and payload; main.rs
\* calls it first and embeds whatever it answers
CheckCapacity ==
    /\ fits = NoResult
    /\ fits' = check_watermark_capacity(data.cols, data.rows, Len(watermark),
                                        NameOf(algorithm))
    /\ UNCHANGED <<algorithm, block_size, levels, data, watermark, strength, embedded,
                   extracted>>
    /\ UNCHANGED <<textVars, videoVars, callVars, procVars>>

NextCodec == Embed \/ Extract \/ CheckCapacity

SpecCodec == InitCodec /\ [][NextCodec]_vars

-----------------------------------------------------------------------------
(* Text serialisation as a state machine: encode, possibly damage, decode *)

\* longest text, in chars
MaxChars == 2

\* chars of every encoded width: NUL, 'H', 'i', U+00E9, U+4E2D, U+1F600
TestChars == {0, 72, 105, 233, 20013, 128512}

RECURSIVE StringsUpTo(_)
StringsUpTo(n) ==
    IF n = 0 THEN {<<>>}
    ELSE LET shorter == StringsUpTo(n - 1)
         IN  shorter \cup {Append(t, c) : t \in {x \in shorter : Len(x) = n - 1},
                                           c \in TestChars}

InitText ==
    /\ text \in StringsUpTo(MaxChars)
    /\ bit_vec = <<>>
    /\ tampered = "start"
    /\ decoded = NoResult
    /\ CodecIdle
    /\ VideoIdle
    /\ CallIdle
    /\ ProcIdle

\* WatermarkUtils::string_to_bits(&text)
StringToBits ==
    /\ tampered = "start"
    /\ bit_vec' = string_to_bits(text)
    /\ tampered' = "clean"
    /\ UNCHANGED <<text, decoded>>
    /\ UNCHANGED <<codecVars, videoVars, callVars, procVars>>

\* the channel between embed and extract flips one bit
FlipBit ==
    /\ tampered = "clean" /\ decoded = NoResult
    /\ \E k \in 1..Len(bit_vec) : bit_vec' = [bit_vec EXCEPT ![k] = 1 - @]
    /\ tampered' = "damaged"
    /\ UNCHANGED <<text, decoded>>
    /\ UNCHANGED <<codecVars, videoVars, callVars, procVars>>

\* the caller asks for a bit count that is no multiple of 8: up to 7 bits are cut off
\* or one stray bit follows
Misalign ==
    /\ tampered = "clean" /\ decoded = NoResult
    /\ \/ \E k \in 1..Min(7, Len(bit_vec)) :
              bit_vec' = SubSeq(bit_vec, 1, Len(bit_vec) - k)
       \/ \E b \in {0, 1} : bit_vec' = Append(bit_vec, b)
    /\ tampered' = "damaged"
    /\ UNCHANGED <<text, decoded>>
    /\ UNCHANGED <<codecVars, videoVars, callVars, procVars>>

\* WatermarkUtils::bits_to_string(&bit_vec)
BitsToString ==
    /\ tampered # "start" /\ decoded = NoResult
    /\ decoded' = bits_to_string(bit_vec)
    /\ UNCHANGED <<text, bit_vec, tampered>>
    /\ UNCHANGED <<codecVars, videoVars, callVars, procVars>>

NextText == StringToBits \/ FlipBit \/ Misalign \/ BitsToString

SpecText == InitText /\ [][NextText]_vars

-----------------------------------------------------------------------------
(* Multi-frame video extraction as a state machine: extract_video_only walks the *)
(* sampled frames, votes and returns                                             *)

\* most frames a caller asks for
MaxFrames == 3

WatermarkLengths == {0, 2}

\* None and Some(1.0)
Thresholds == {NoResult, Ok(F64Div(1, 1))}

\* luma of pixel (i, j) of the 3 x 3 test frames: a flat frame, a frame with one
\* brighter pixel, and a frame with an edge
Luma(p, i, j) ==
    CASE p = 1 -> 8
      [] p = 2 -> IF i = 2 /\ j = 2 THEN 9 ELSE 8
      [] p = 3 -> IF j = 3 THEN 16 ELSE IF j = 2 THEN 4 * i ELSE 0

TestFrame(p) == LET L(i, j) == Luma(p, i, j) IN MakeGrid(3, 3, L)

\* "", U+00E9 (bytes C3 A9) and U+0100 (bytes C4 80)
TestTexts == {<<>>, <<233>>, <<256>>}

\* what can become of one sampled frame: ffmpeg fails to extract it, the frame file is
\* missing or empty, the frame cannot be read for assessment, the watermark cannot be
\* extracted from it, or it yields a text of watermark_length bytes
FrameOutcomes(len) ==
    {[kind |-> k] :
         k \in {"decode_failed", "missing", "empty", "quality_failed", "extract_failed"}}
    \cup {[kind |-> "ok", gray |-> TestFrame(p), text |-> t] :
              p \in 1..3, t \in {x \in TestTexts : Len(Utf8Bytes(x)) = len}}

InitVideo ==
    /\ sample_frames \in 0..MaxFrames
    /\ watermark_length \in WatermarkLengths
    /\ confidence_threshold \in Thresholds
    /\ frame_indices = <<>>
    /\ frame_outcomes = <<>>
    /\ results = <<>>
    /\ voted = NoResult
    /\ warned = FALSE
    /\ video_result = NoResult
    /\ video_pc = "idle"
    /\ CodecIdle
    /\ TextIdle
    /\ CallIdle
    /\ ProcIdle

\* extract_video_only up to the sampling loop: the temporary directory is created and
\* the video is probed; either can fail
BeginExtract ==
    /\ video_pc = "idle" /\ video_result = NoResult
    /\ \/ /\ \E e \in {"Io", "UnsupportedFormat"} : video_result' = Err(e)
          /\ video_pc' = "io_failed"
          /\ UNCHANGED frame_indices
       \/ /\ frame_indices' = SampledIndices(sample_frames)
          /\ video_pc' = "sampling"
          /\ UNCHANGED video_result
    /\ UNCHANGED <<sample_frames, watermark_length, confidence_threshold,
                   frame_outcomes, results, voted, warned>>
    /\ UNCHANGED <<codecVars, textVars, callVars, procVars>>

\* one iteration of the loop of extract_multiple_frames_watermark
SampleFrame ==
    /\ video_pc = "sampling"
    /\ Len(frame_outcomes) < Len(frame_indices)
    /\ \E outcome \in FrameOutcomes(watermark_length) :
          /\ frame_outcomes' = Append(frame_outcomes, outcome)
          /\ results' = SampleOneFrame(results, outcome, watermark_length)
    /\ UNCHANGED <<sample_frames, watermark_length, confidence_threshold, frame_indices,
                   voted, warned, video_result, video_pc>>
    /\ UNCHANGED <<codecVars, textVars, callVars, procVars>>

\* the loop is over: extract_multiple_frames_watermark returns, and on Ok
\* extract_video_only votes, warns, removes the temporary directory and returns
FinishExtract ==
    /\ video_pc = "sampling"
    /\ Len(frame_outcomes) = Len(frame_indices)
    /\ LET frame_results == SampledResults(results)
           threshold == IF confidence_threshold = NoResult THEN F64Div(3, 5)
                        ELSE confidence_threshold.value
       IN  IF frame_results.kind = "err"
           THEN /\ video_result' = frame_results
                /\ video_pc' = "done"
                /\ UNCHANGED <<voted, warned>>
           ELSE /\ voted' = vote_watermark_bits(results, watermark_length)
                /\ warned' = F64Less(voted'.confidence, threshold)
                /\ \E removed \in BOOLEAN :
                      IF removed
                      THEN /\ video_result' =
                                  Ok(<<voted'.text, voted'.confidence, Len(results)>>)
                           /\ video_pc' = "done"
                      ELSE /\ video_result' = Err("Io")
                           /\ video_pc' = "io_failed"
    /\ UNCHANGED <<sample_frames, watermark_length, confidence_threshold, frame_indices,
                   frame_outcomes, results>>
    /\ UNCHANGED <<codecVars, textVars, callVars, procVars>>

NextVideo == BeginExtract \/ SampleFrame \/ FinishExtract

SpecVideo == InitVideo /\ [][NextVideo]_vars

-----------------------------------------------------------------------------
(* The vote on its own: vote_watermark_bits applied to a list of samples *)

\* most samples in a list
MaxVoters == 2

\* most bits of a short sample
MaxSampleBits == 3

RECURSIVE BitSeqsUpTo(_)
BitSeqsUpTo(n) ==
    IF n = 0 THEN {<<>>}
    ELSE LET shorter == BitSeqsUpTo(n - 1)
         IN  shorter \cup {Append(t, b) : t \in {x \in shorter : Len(x) = n - 1},
                                           b \in {0, 1}}

\* samples of a few bits and samples of a whole byte, with weight 0.0, 1.0 or 2.0
TestSamples ==
    {Sample(bs, q) : bs \in BitSeqsUpTo(MaxSampleBits)
                            \cup {video_string_to_bits(<<c>>, 1) : c \in {72, 105}},
                     q \in {0, FxOne, 2 * FxOne}}

RECURSIVE SampleLists(_)
SampleLists(n) ==
    IF n = 0 THEN {<<>>}
    ELSE LET shorter == SampleLists(n - 1)
         IN  shorter \cup {Append(t, x) : t \in {y \in shorter : Len(y) = n - 1},
                                           x \in TestSamples}

InitVote ==
    /\ results \in SampleLists(MaxVoters)
    /\ watermark_length \in {0, 1}
    /\ sample_frames = 0
    /\ confidence_threshold = NoResult
    /\ frame_indices = <<>>
    /\ frame_outcomes = <<>>
    /\ voted = NoResult
    /\ warned = FALSE
    /\ video_result = NoResult
    /\ video_pc = "idle"
    /\ CodecIdle
    /\ TextIdle
    /\ CallIdle
    /\ ProcIdle

\* Self::vote_watermark_bits(results, watermark_length)
Vote ==
    /\ voted = NoResult
    /\ voted' = vote_watermark_bits(results, watermark_length)
    /\ UNCHANGED <<sample_frames, watermark_length, confidence_threshold, frame_indices,
                   frame_outcomes, results, warned, video_result, video_pc>>
    /\ UNCHANGED <<codecVars, textVars, callVars, procVars>>

NextVote == Vote

SpecVote == InitVote /\ [][NextVote]_vars

-----------------------------------------------------------------------------
(* Frame index generation on its own: generate_sample_frame_indices and the sort, *)
(* dedup and truncate its caller applies                                           *)

\* largest sample_count
MaxSampleCount == 6

\* largest skip_frames
MaxSkip == 6

\* largest max_frames
MaxFrameCount == 13

InitIndices ==
    /\ \E n \in 0..MaxSampleCount, skip \in 0..MaxSkip, max \in 0..MaxFrameCount :
          call = [fn |-> "generate_sample_frame_indices", sample_count |-> n,
                  skip_frames |-> skip, max_frames |-> max]
    /\ returned = NoResult
    /\ CodecIdle
    /\ TextIdle
    /\ VideoIdle
    /\ ProcIdle

\* Self::generate_sample_frame_indices(..), then sort_unstable, dedup, truncate
GenerateIndices ==
    /\ call # NoResult /\ call.fn = "generate_sample_frame_indices"
    /\ returned = NoResult
    /\ LET generated == generate_sample_frame_indices(call.sample_count, call.skip_frames,
                                                     call.max_frames)
       IN  returned' = [generated |-> generated,
                        frame_indices |-> SortedSample(generated, call.sample_count)]
    /\ UNCHANGED call
    /\ UNCHANGED <<codecVars, textVars, videoVars, procVars>>

NextIndices == GenerateIndices

SpecIndices == InitIndices /\ [][NextIndices]_vars

-----------------------------------------------------------------------------
(* The wavelet shape check on its own: DwtWatermark::embed and ::extract on grids *)
(* of every shape, empty ones included                                            *)

\* largest grid side of a shape call
MaxShape == 9

\* `rows - 1` and `cols - 1` of the shape test are usize subtractions: at 0 a build
\* with overflow checks panics; without them the difference wraps to usize::MAX and
\* 0 & usize::MAX is 0.  The || is short-circuit: cols is looked at only if the rows
\* pass.
ShapeCheckPanics(rows, cols) ==
    rows = 0 \/ (BitAnd(rows, rows - 1) = 0 /\ cols = 0)

Panicked == [kind |-> "panic"]

InitShape ==
    /\ \E f \in {"DwtWatermark::embed", "DwtWatermark::extract"},
          r \in 0..MaxShape, c \in 0..MaxShape, n \in 0..1, checks \in BOOLEAN :
          call = [fn |-> f, rows |-> r, cols |-> c, nbits |-> n,
                  overflow_checks |-> checks]
    /\ returned = NoResult
    /\ CodecIdle
    /\ TextIdle
    /\ VideoIdle
    /\ ProcIdle

\* DwtWatermark::default().embed(&grid, &bits, 0.1) or .extract(&grid, nbits)
DwtShapeCall ==
    /\ call # NoResult /\ call.fn \in {"DwtWatermark::embed", "DwtWatermark::extract"}
    /\ returned = NoResult
    /\ LET g == TestGrid(2, call.rows, call.cols)
       IN  returned' =
               IF call.overflow_checks /\ ShapeCheckPanics(call.rows, call.cols)
               THEN Panicked
               ELSE IF call.fn = "DwtWatermark::embed"
               THEN DwtEmbed(g, Alternating(call.nbits, 1), FxOne \div 10, 1)
               ELSE DwtExtract(g, call.nbits, 1)
    /\ UNCHANGED call
    /\ UNCHANGED <<codecVars, textVars, videoVars, procVars>>

NextShape == DwtShapeCall

SpecShape == InitShape /\ [][NextShape]_vars

-----------------------------------------------------------------------------
(* The wavelet embedding positions: DwtWatermark::embed on power-of-two grids of  *)
(* every size and with every level count                                           *)

\* largest grid side of a sub-band call
MaxBand == 16

\* largest level count
MaxLevels == 3

PowersOfTwo(max) == {n \in 1..max : \E k \in 0..max : n = 2 ^ k}

InitBands ==
    /\ \E r \in PowersOfTwo(MaxBand), c \in PowersOfTwo(MaxBand), lv \in 0..MaxLevels,
          first \in {0, 1}, st \in {FxOne \div 10, FxOne} :
          call = [fn |-> "DwtWatermark::with_levels(lv).embed", rows |-> r, cols |-> c,
                  levels |-> lv, first |-> first, strength |-> st]
    /\ returned = NoResult
    /\ CodecIdle
    /\ TextIdle
    /\ VideoIdle
    /\ ProcIdle

\* DwtWatermark::new().with_levels(lv).embed(&grid, &bits, strength) with one bit for
\* every position
DwtEmbedBands ==
    /\ call # NoResult /\ call.fn = "DwtWatermark::with_levels(lv).embed"
    /\ returned = NoResult
    /\ LET g == TestGrid(4, call.rows, call.cols)
           positions == get_high_freq_positions(call.rows, call.cols)
           wm == Alternating(Len(positions), call.first)
       IN  returned' = [positions |-> positions,
                        coefficients |-> DwtCoefficients(g, wm, call.strength, call.levels),
                        result |-> DwtEmbed(g, wm, call.strength, call.levels)]
    /\ UNCHANGED call
    /\ UNCHANGED <<codecVars, textVars, videoVars, procVars>>

NextBands == DwtEmbedBands

SpecBands == InitBands /\ [][NextBands]_vars

-----------------------------------------------------------------------------
(* The transforms and their helpers, called on their own *)

\* largest grid side handed to pad_to_block_size
MaxPad == 5

\* largest block size of with_block_size
MaxBlock == 4

\* DctWatermark::new().with_block_size(bs).pad_to_block_size(&grid)
PadCalls ==
    {[fn |-> "pad_to_block_size", rows |-> r, cols |-> c, block_size |-> bs,
      pattern |-> p] : r \in 1..MaxPad, c \in 1..MaxPad, bs \in 1..MaxBlock, p \in {2, 3}}

\* the block sizes of with_block_size whose transform is called on its own
BlockSizes == {2, 4, 8, 16}

\* DctWatermark::new().with_block_size(n): dct_2d, then idct_2d, of one n x n block
DctCalls ==
    {[fn |-> "idct_2d(dct_2d)", block_size |-> n, pattern |-> p] :
        n \in BlockSizes, p \in {1, 2}}

\* DwtWatermark::new().with_levels(lv): multilevel_forward, then multilevel_inverse
HaarCalls ==
    {[fn |-> "multilevel_inverse(multilevel_forward)", rows |-> r, cols |-> c,
      levels |-> lv, pattern |-> p] :
        r \in PowersOfTwo(MaxBand), c \in PowersOfTwo(MaxBand), lv \in 0..MaxLevels,
        p \in {2, 3}}

\* grids of one, four, six (after padding) and twenty-one blocks
BlockGrids == {<<8, 8>>, <<16, 16>>, <<12, 20>>, <<24, 56>>}

\* DctWatermark::new().embed(&grid, &bits, strength), then extract(&output, bits.len()),
\* with no bit, one bit, a bit for every block but one, or a bit for every block
EmbedCalls ==
    UNION {{[fn |-> "DctWatermark::embed, extract", rows |-> d[1], cols |-> d[2],
             nbits |-> n, strength |-> st] :
                n \in {0, 1, DivCeil(d[1], 8) * DivCeil(d[2], 8) - 1,
                       DivCeil(d[1], 8) * DivCeil(d[2], 8)},
                st \in {FxOne \div 10, FxOne}} : d \in BlockGrids}

\* DctWatermark::new().with_block_size(n).extract(&grid, expected_length)
DctExtractCalls ==
    {[fn |-> "DctWatermark::extract", block_size |-> bs, rows |-> d, cols |-> d,
      expected_length |-> n] :
        bs \in {2, 4, 8}, d \in {8, 16}, n \in {0, 1, 4, 5, 6, 16, 17}}

\* DwtWatermark::new().with_levels(lv).extract(&grid, expected_length)
DwtExtractCalls ==
    {[fn |-> "DwtWatermark::extract", levels |-> lv, rows |-> r, cols |-> c,
      expected_length |-> n] :
        lv \in 1..2, r \in {4, 6, 8}, c \in {4, 8}, n \in {0, 1, 12, 13, 48, 49}}

InitTransform ==
    /\ call \in PadCalls \cup DctCalls \cup HaarCalls \cup EmbedCalls
                \cup DctExtractCalls \cup DwtExtractCalls
    /\ returned = NoResult
    /\ CodecIdle
    /\ TextIdle
    /\ VideoIdle
    /\ ProcIdle

\* pad_to_block_size, then unpad_from_block_size with the original dimensions
PadToBlockSize ==
    /\ call # NoResult /\ call.fn = "pad_to_block_size"
    /\ returned = NoResult
    /\ LET g == TestGrid(call.pattern, call.rows, call.cols)
           padded == pad_to_block_size(g, call.block_size)
       IN  returned' = [input |-> g, padded |-> padded,
                        unpadded |-> unpad_from_block_size(padded, g.rows, g.cols)]
    /\ UNCHANGED call
    /\ UNCHANGED <<codecVars, textVars, videoVars, procVars>>

\* dct_2d of a block, then idct_2d of the coefficients
DctRoundTrip ==
    /\ call # NoResult /\ call.fn = "idct_2d(dct_2d)"
    /\ returned = NoResult
    /\ LET block == TestGrid(call.pattern, call.block_size, call.block_size).cells
           dct_block == dct_2d(block)
       IN  returned' = [input |-> block, coefficients |-> dct_block,
                        output |-> idct_2d(dct_block)]
    /\ UNCHANGED call
    /\ UNCHANGED <<codecVars, textVars, videoVars, procVars>>

\* multilevel_forward of a grid, then multilevel_inverse of the coefficients
HaarRoundTrip ==
    /\ call # NoResult /\ call.fn = "multilevel_inverse(multilevel_forward)"
    /\ returned = NoResult
    /\ LET g == TestGrid(call.pattern, call.rows, call.cols)
           dwt_data == multilevel_forward(g, call.levels)
       IN  returned' = [input |-> g, coefficients |-> dwt_data,
                        output |-> multilevel_inverse(dwt_data, call.levels)]
    /\ UNCHANGED call
    /\ UNCHANGED <<codecVars, textVars, videoVars, procVars>>

\* DctWatermark::embed of alternating bits, then DctWatermark::extract of as many bits
EmbedThenExtract ==
    /\ call # NoResult /\ call.fn = "DctWatermark::embed, extract"
    /\ returned = NoResult
    /\ LET g == TestGrid(2, call.rows, call.cols)
           bits == Alternating(call.nbits, 1)
           output == DctEmbed(g, bits, call.strength, 8)
       IN  returned' = [input |-> g, bits |-> bits, padded |-> pad_to_block_size(g, 8),
                        output |-> output,
                        extracted |-> DctExtract(output.value, call.nbits, 8)]
    /\ UNCHANGED call
    /\ UNCHANGED <<codecVars, textVars, videoVars, procVars>>

\* DctWatermark::extract with the block size of with_block_size
DctExtractBits ==
    /\ call # NoResult /\ call.fn = "DctWatermark::extract"
    /\ returned = NoResult
    /\ returned' = DctExtract(TestGrid(3, call.rows, call.cols), call.expected_length,
                              call.block_size)
    /\ UNCHANGED call
    /\ UNCHANGED <<codecVars, textVars, videoVars, procVars>>

\* DwtWatermark::extract with the level count of with_levels
DwtExtractBits ==
    /\ call # NoResult /\ call.fn = "DwtWatermark::extract"
    /\ returned = NoResult
    /\ returned' = DwtExtract(TestGrid(3, call.rows, call.cols), call.expected_length,
                              call.levels)
    /\ UNCHANGED call
    /\ UNCHANGED <<codecVars, textVars, videoVars, procVars>>

NextTransform ==
    \/ PadToBlockSize
    \/ DctRoundTrip
    \/ HaarRoundTrip
    \/ EmbedThenExtract
    \/ DctExtractBits
    \/ DwtExtractBits

SpecTransform == InitTransform /\ [][NextTransform]_vars

-----------------------------------------------------------------------------
(* The capacity checks of images and of audio, called on their own *)

\* image dimensions: around one block, around 2^16 (where the wavelet product reaches
\* 2^32), 2^19 and 2^20 (where the block product does), and near the top of the range
TestDimensions == {0, 1, 7, 8, 9, 65535, 65536, 65537, 524288, 1048576, 2147483640}

\* the names of the algorithm handed in: the two of this crate, one containing both
\* tags, and one containing neither
AlgorithmNames == {"DCT", "DWT", "DWT-DCT", "LSB"}

\* most samples in an audio file
MaxSamples == 20

\* the smallest r with r * r >= n: (n as f64).sqrt().ceil()
CeilSqrt(n) == LET r == ISqrtIn(n, 0, n) IN IF r * r = n THEN r ELSE r + 1

\* AudioWatermarker::check_watermark_capacity, lines 432-450
AudioCapacity(total_samples, name) ==
    LET matrix_size == CeilSqrt(total_samples)
    IN  IF ContainsTag(name, "DCT")
        THEN LET adjusted_size == DivCeil(matrix_size, 8) * 8
             IN  Ok((adjusted_size \div 8) * (adjusted_size \div 8))
        ELSE IF ContainsTag(name, "DWT")
        THEN LET adjusted_size == IF matrix_size % 2 = 0 THEN matrix_size
                                  ELSE matrix_size + 1
             IN  Ok((adjusted_size * adjusted_size) \div 4)
        ELSE Err("Algorithm")

InitCapacity ==
    /\ \/ \E w \in TestDimensions, h \in TestDimensions, name \in AlgorithmNames,
             bs \in {8, 16}, n \in {0, 9}, checks \in BOOLEAN :
             call = [fn |-> "ImageWatermarker::check_watermark_capacity", width |-> w,
                     height |-> h, name |-> name, block_size |-> bs, nbits |-> n,
                     overflow_checks |-> checks]
       \/ \E format \in {"Float", "Int"}, depth \in {8, 16, 24, 32},
             total \in 0..MaxSamples, name \in AlgorithmNames, n \in {0, 9} :
             call = [fn |-> "AudioWatermarker::check_watermark_capacity",
                     sample_format |-> format, bits_per_sample |-> depth,
                     total_samples |-> total, name |-> name, nbits |-> n]
    /\ returned = NoResult
    /\ CodecIdle
    /\ TextIdle
    /\ VideoIdle
    /\ ProcIdle

\* ImageWatermarker::check_watermark_capacity on an image of the given dimensions
ImageCheckCapacity ==
    /\ call # NoResult /\ call.fn = "ImageWatermarker::check_watermark_capacity"
    /\ returned = NoResult
    /\ LET capacity == CapacityU32(call.width, call.height, call.name)
       IN  returned' =
               IF ~(ContainsTag(call.name, "DCT") \/ ContainsTag(call.name, "DWT"))
               THEN Err("Algorithm")
               ELSE IF capacity.overflowed /\ call.overflow_checks
               THEN Panicked
               ELSE [kind |-> "ok", capacity |-> capacity.value,
                     value |-> U32LessEq(<<0, call.nbits>>, capacity.value)]
    /\ UNCHANGED call
    /\ UNCHANGED <<codecVars, textVars, videoVars, procVars>>

\* AudioWatermarker::check_watermark_capacity on a file of the given format
AudioCheckCapacity ==
    /\ call # NoResult /\ call.fn = "AudioWatermarker::check_watermark_capacity"
    /\ returned = NoResult
    /\ LET capacity == AudioCapacity(call.total_samples, call.name)
       IN  returned' =
               IF call.sample_format = "Int" /\ call.bits_per_sample \notin {16, 24, 32}
               THEN Err("UnsupportedFormat")
               ELSE IF capacity.kind = "err"
               THEN capacity
               ELSE [kind |-> "ok", capacity |-> capacity.value,
                     value |-> call.nbits <= capacity.value]
    /\ UNCHANGED call
    /\ UNCHANGED <<codecVars, textVars, videoVars, procVars>>

NextCapacity == ImageCheckCapacity \/ AudioCheckCapacity

SpecCapacity == InitCapacity /\ [][NextCapacity]_vars

-----------------------------------------------------------------------------
(* ImageWatermarker on a grey image kept in a lossless file: embed_watermark, then *)
(* extract_watermark on the saved file                                              *)

\* ImageWatermarker::image_to_array_gray: pixel as f64 / 255.0
image_to_array_gray(img) ==
    LET Cell(i, j) == RDiv(img.cells[i][j] * FxOne, 255)
    IN  MakeGrid(img.rows, img.cols, Cell)

\* ImageWatermarker::array_to_image_gray: (value * 255.0).round().clamp(0.0, 255.0) as u8
array_to_image_gray(array) ==
    LET Cell(i, j) == Clamp(RDiv(array.cells[i][j] * 255, FxOne), 0, 255)
    IN  MakeGrid(array.rows, array.cols, Cell)

\* a textured grey image of 8-bit pixels
TestImage(r, c) ==
    LET Cell(i, j) == (i * 37 + j * 101 + i * j * 7) % 256
    IN  MakeGrid(r, c, Cell)

\* the watermark texts: up to MaxChars characters out of 'H' and U+00E9
ImageTexts == {t \in StringsUpTo(MaxChars) : \A i \in 1..Len(t) : t[i] \in {72, 233}}

InitImage ==
    /\ \E t \in ImageTexts, r \in {32, 40}, st \in {FxOne \div 10, FxOne},
          unit \in {"chars", "bytes"} :
          call = [fn |-> "ImageWatermarker::embed_watermark, extract_watermark",
                  watermark_text |-> t, image |-> TestImage(r, 32), strength |-> st,
                  watermark_length |-> IF unit = "chars" THEN Len(t)
                                       ELSE Len(Utf8Bytes(t))]
    /\ returned = NoResult
    /\ CodecIdle
    /\ TextIdle
    /\ VideoIdle
    /\ ProcIdle

\* ImageWatermarker::embed_watermark with the DCT algorithm: the file it saves
ImageEmbed ==
    /\ call # NoResult
    /\ call.fn = "ImageWatermarker::embed_watermark, extract_watermark"
    /\ returned = NoResult
    /\ LET watermark_bits == string_to_bits(call.watermark_text)
           data_in == image_to_array_gray(call.image)
           watermarked_data == DctEmbed(data_in, watermark_bits, call.strength, 8)
       IN  returned' = [saved |-> IF watermarked_data.kind = "err"
                                  THEN Err(watermarked_data.error)
                                  ELSE Ok(array_to_image_gray(watermarked_data.value)),
                        extracted |-> NoResult]
    /\ UNCHANGED call
    /\ UNCHANGED <<codecVars, textVars, videoVars, procVars>>

\* ImageWatermarker::extract_watermark on the saved file
ImageExtract ==
    /\ call # NoResult
    /\ call.fn = "ImageWatermarker::embed_watermark, extract_watermark"
    /\ returned # NoResult /\ returned.saved.kind = "ok" /\ returned.extracted = NoResult
    /\ LET data_out == image_to_array_gray(returned.saved.value)
           extracted_bits == DctExtract(data_out, call.watermark_length * 8, 8)
       IN  returned' = [returned EXCEPT !.extracted =
                           IF extracted_bits.kind = "err" THEN extracted_bits
                           ELSE bits_to_string(extracted_bits.value)]
    /\ UNCHANGED call
    /\ UNCHANGED <<codecVars, textVars, videoVars, procVars>>

NextImage == ImageEmbed \/ ImageExtract

SpecImage == InitImage /\ [][NextImage]_vars

-----------------------------------------------------------------------------
(* AudioWatermarker::embed_watermark and extract_watermark called by several threads *)
(* of one process, each on its own file: every file system call is one step         *)

\* most invocations running at once
MaxThreads == 2

Threads == 1..MaxThreads

\* temp_dir: std::env::temp_dir().join(format!("audio_watermark_{}", process::id())),
\* "audio_extract_{}" for extract_watermark; the process id is the same in all threads
TempDirOf(kind) == IF kind = "embed" THEN "audio_watermark_pid" ELSE "audio_extract_pid"

\* an audio file: whose samples it holds and the watermark embedded in them
AudioFile(source, wm) == [source |-> source, watermark |-> wm]

\* the file thread t was handed: unmarked for an embed, marked with t's text for an
\* extract
InputOf(t, kind) == AudioFile(t, IF kind = "embed" THEN "none" ELSE t)

\* a directory just created
EmptyDir == [normalized |-> NoResult, watermarked |-> NoResult]

InitThreads ==
    /\ temp_dirs = [d \in {"audio_watermark_pid", "audio_extract_pid"} |-> NoResult]
    /\ \E kinds \in [Threads -> {"embed", "extract"}] :
          threads = [t \in Threads |->
                        [kind |-> kinds[t], pc |-> "create_dir_all", samples |-> NoResult,
                         output |-> NoResult, result |-> NoResult]]
    /\ CodecIdle
    /\ TextIdle
    /\ VideoIdle
    /\ CallIdle

\* the `?` of a failed step: the invocation returns the error, its directory stays
Fail(t, e) == [threads EXCEPT ![t].pc = "returned", ![t].result = Err(e)]

\* std::fs::create_dir_all(&temp_dir)?, audio.rs lines 37 and 188
CreateDirAll(t) ==
    /\ threads[t].pc = "create_dir_all"
    /\ LET dir == TempDirOf(threads[t].kind)
       IN  temp_dirs' = IF temp_dirs[dir] = NoResult
                        THEN [temp_dirs EXCEPT ![dir] = EmptyDir]
                        ELSE temp_dirs
    /\ threads' = [threads EXCEPT ![t].pc = "normalize_audio_format"]
    /\ UNCHANGED <<codecVars, textVars, videoVars, callVars>>

\* Self::normalize_audio_format(input_path, &normalized_audio)?: ffmpeg writes
\* normalized.wav, over a file of that name if there is one
NormalizeAudioFormat(t) ==
    /\ threads[t].pc = "normalize_audio_format"
    /\ LET dir == TempDirOf(threads[t].kind)
       IN  IF temp_dirs[dir] = NoResult
           THEN /\ threads' = Fail(t, "ProcessingError")
                /\ UNCHANGED temp_dirs
           ELSE /\ temp_dirs' = [temp_dirs EXCEPT ![dir].normalized =
                                    InputOf(t, threads[t].kind)]
                /\ threads' = [threads EXCEPT ![t].pc = "WavReader::open"]
    /\ UNCHANGED <<codecVars, textVars, videoVars, callVars>>

\* WavReader::open(&normalized_audio)? and the samples read from it; extract_watermark
\* then extracts the text and decodes it (lines 207-210)
ReadSamples(t) ==
    /\ threads[t].pc = "WavReader::open"
    /\ LET dir == TempDirOf(threads[t].kind)
       IN  IF temp_dirs[dir] = NoResult \/ temp_dirs[dir].normalized = NoResult
           THEN threads' = Fail(t, "Audio")
           ELSE threads' = [threads EXCEPT
                               ![t].samples = temp_dirs[dir].normalized,
                               ![t].pc = IF threads[t].kind = "embed" THEN "write_wav"
                                         ELSE "remove_dir_all"]
    /\ UNCHANGED temp_dirs
    /\ UNCHANGED <<codecVars, textVars, videoVars, callVars>>

\* ultra_gentle_embed of the thread's text, then Self::write_wav(&watermarked_temp, ..)?
WriteWav(t) ==
    /\ threads[t].pc = "write_wav"
    /\ LET dir == TempDirOf(threads[t].kind)
       IN  IF temp_dirs[dir] = NoResult
           THEN /\ threads' = Fail(t, "Audio")
                /\ UNCHANGED temp_dirs
           ELSE /\ temp_dirs' = [temp_dirs EXCEPT ![dir].watermarked =
                                    AudioFile(threads[t].samples.source, t)]
                /\ threads' = [threads EXCEPT ![t].pc = "convert_to_original_format"]
    /\ UNCHANGED <<codecVars, textVars, videoVars, callVars>>

\* Self::convert_to_original_format(&watermarked_temp, .., &output_path)?: ffmpeg
\* copies watermarked.wav to the output path
ConvertToOriginalFormat(t) ==
    /\ threads[t].pc = "convert_to_original_format"
    /\ LET dir == TempDirOf(threads[t].kind)
       IN  IF temp_dirs[dir] = NoResult \/ temp_dirs[dir].watermarked = NoResult
           THEN threads' = Fail(t, "ProcessingError")
           ELSE threads' = [threads EXCEPT ![t].output = temp_dirs[dir].watermarked,
                                           ![t].pc = "remove_dir_all"]
    /\ UNCHANGED temp_dirs
    /\ UNCHANGED <<codecVars, textVars, videoVars, callVars>>

\* std::fs::remove_dir_all(&temp_dir)?, lines 79 and 213, and the return that follows
RemoveDirAll(t) ==
    /\ threads[t].pc = "remove_dir_all"
    /\ LET dir == TempDirOf(threads[t].kind)
       IN  IF temp_dirs[dir] = NoResult
           THEN /\ threads' = Fail(t, "Io")
                /\ UNCHANGED temp_dirs
           ELSE /\ temp_dirs' = [temp_dirs EXCEPT ![dir] = NoResult]
                /\ threads' = [threads EXCEPT
                                  ![t].pc = "returned",
                                  ![t].result = IF threads[t].kind = "embed" THEN Ok(<<>>)
                                                ELSE Ok(threads[t].samples.watermark)]
    /\ UNCHANGED <<codecVars, textVars, videoVars, callVars>>

NextThreads ==
    \/ \E t \in Threads : CreateDirAll(t)
    \/ \E t \in Threads : NormalizeAudioFormat(t)
    \/ \E t \in Threads : ReadSamples(t)
    \/ \E t \in Threads : WriteWav(t)
    \/ \E t \in Threads : ConvertToOriginalFormat(t)
    \/ \E t \in Threads : RemoveDirAll(t)

SpecThreads == InitThreads /\ [][NextThreads]_vars

-----------------------------------------------------------------------------
(* Audio: AudioWatermarker's sample buffers, the grid they are laid out in, the way   *)
(* back and the conditioning of the watermarked samples                               *)

\* most samples of a buffer whose grid is built without being embedded into
MaxAudio == 257

RECURSIVE next_power_of_two(_)
\* usize::next_power_of_two: 1 for 0, otherwise the smallest power of two >= n
next_power_of_two(n) == IF n <= 1 THEN 1 ELSE 2 * next_power_of_two((n + 1) \div 2)

\* sample i (from 0) of a test buffer: quiet (peak 0.5), never 0.0, or, for loud >= 1,
\* the same wave scaled so that its peak is `loud`
AudioSample(loud, i) ==
    LET wave == ((i * 149 + 64) % (FxOne + 1)) - (FxOne \div 2)
        quiet == IF wave = 0 THEN 1 ELSE wave
    IN  IF loud = 0 THEN quiet
        ELSE IF i % 7 = 3 THEN loud
        ELSE RDiv(quiet * 2 * loud, FxOne)

\* the Vec<f64> whose elements are those of the function f on 1..n
Vec(f) == f \o <<>>

\* the test buffer of n samples
AudioSamples(loud, n) == Vec([k \in 1..n |-> AudioSample(loud, k - 1)])

(* The operators below read a buffer many times.  Each of them takes the value of   *)
(* the buffer it is given once, as the only element s of the set {samples}, and      *)
(* computes its result from s.                                                       *)

\* AudioWatermarker::prepare_samples_for_watermarking
prepare_samples_for_watermarking(samples, name) ==
    LET Prepared(s) ==
            LET len == Len(s)
                matrix_size == CeilSqrt(len)
                adjusted_size == IF ContainsTag(name, "DCT")
                                 THEN DivCeil(matrix_size, 8) * 8
                                 ELSE next_power_of_two(matrix_size)
                required_size == adjusted_size * adjusted_size
            IN  IF ~ContainsTag(name, "DCT") /\ ~ContainsTag(name, "DWT")
                THEN Err("Algorithm")
                ELSE Ok(Vec([k \in 1..required_size |-> IF k <= Len(s) THEN s[k] ELSE 0]))
    IN  CHOOSE r \in {Prepared(s) : s \in {samples}} : TRUE

\* AudioWatermarker::audio_to_array
audio_to_array(samples) ==
    LET Array(s, matrix_size) ==
            LET Cell(i, j) == LET k == (i - 1) * matrix_size + j
                              IN  IF k <= Len(s) THEN s[k] ELSE 0
            IN  MakeGrid(matrix_size, matrix_size, Cell)
    IN  CHOOSE r \in {Array(s, next_power_of_two(CeilSqrt(Len(s)))) : s \in {samples}} :
            TRUE

\* the samples of a grid in row-major order
Flatten(array) ==
    LET Cells(a) == Vec([k \in 1..(a.rows * a.cols) |->
                        a.cells[((k - 1) \div a.cols) + 1][((k - 1) % a.cols) + 1]])
    IN  CHOOSE r \in {Cells(a) : a \in {array}} : TRUE

\* the fixed-point value of the decimal literal n / 1000
Milli(n) == RDiv(n * FxOne, 1000)

RECURSIVE MaxAbsIn(_, _, _)
\* the largest |x| over s[lo..hi], halving the range
MaxAbsIn(s, lo, hi) ==
    IF lo > hi THEN 0
    ELSE IF lo = hi THEN Abs(s[lo])
    ELSE CHOOSE m \in {Max(a, b) : a \in {MaxAbsIn(s, lo, (lo + hi) \div 2)},
                                    b \in {MaxAbsIn(s, ((lo + hi) \div 2) + 1, hi)}} : TRUE

\* samples.iter().map(|&x| x.abs()).fold(0.0, f64::max)
MaxAbs(samples) == CHOOSE m \in {MaxAbsIn(s, 1, Len(s)) : s \in {samples}} : TRUE

\* every sample multiplied by numerator / denominator
Scaled(samples, numerator, denominator) ==
    CHOOSE r \in {Vec([k \in 1..Len(s) |-> RDiv(s[k] * numerator, d)]) :
                      s \in {samples}, d \in {denominator}} : TRUE

\* f64::tanh for y >= 0, by its Pade approximant y (27 + y^2) / (27 + 9 y^2)
Tanh(y) ==
    LET x == Min(y, 4 * FxOne)
        x2 == FxMul(x, x)
    IN  Min(FxOne, RDiv(x * (27 * FxOne + x2), 27 * FxOne + 9 * x2))

\* (a / b).sqrt() for 0 <= a <= b
SqrtOfRatio(a, b) == ISqrtIn(RDiv(a * FxOne * FxOne, b), 0, 2 * FxOne)

\* AudioWatermarker::soft_limiter
soft_limiter(input, threshold, ratio) ==
    LET abs_input == Abs(input)
        excess == abs_input - threshold
        limited_excess == FxMul(Tanh(FxMul(excess, ratio)), Milli(50))
    IN  IF abs_input <= threshold THEN input
        ELSE IF input >= 0 THEN threshold + limited_excess
        ELSE -(threshold + limited_excess)

RECURSIVE DeemphasisLoop(_, _, _, _)
\* the loop of apply_deemphasis_filter over s[lo..hi], entered with prev_output:
\* y[n] = x[n] + 0.95 * y[n-1]; the range is run as its first, then its second half
DeemphasisLoop(s, lo, hi, prev_output) ==
    IF lo > hi THEN <<>>
    ELSE IF lo = hi THEN <<s[lo] + FxMul(Milli(950), prev_output)>>
    ELSE CHOOSE r \in {first \o DeemphasisLoop(s, ((lo + hi) \div 2) + 1, hi,
                                               first[Len(first)]) :
                           first \in {DeemphasisLoop(s, lo, (lo + hi) \div 2,
                                                     prev_output)}} : TRUE

\* AudioWatermarker::apply_deemphasis_filter
apply_deemphasis_filter(samples) ==
    LET Normalized(filtered, max_after_filter) ==
            IF max_after_filter > Milli(980)
            THEN Scaled(filtered, Milli(950), max_after_filter)
            ELSE filtered
        Filtered(s) ==
            IF Len(s) < 2 THEN s
            ELSE CHOOSE r \in {Normalized(filtered, MaxAbs(filtered)) :
                                   filtered \in {DeemphasisLoop(s, 1, Len(s), 0)}} : TRUE
    IN  CHOOSE r \in {Filtered(s) : s \in {samples}} : TRUE

\* AudioWatermarker::smooth_audio_start; the Hann factor 0.5 * (1 - cos(2 pi i / length))
\* is taken at the 64 points of the cosine table, the length of every buffer below
\* 6500 samples
smooth_audio_start(samples) ==
    LET Hann(i, smooth_length) == (FxOne - Cos32((64 * i) \div smooth_length)) \div 2
        Smoothed(s, smooth_length) ==
            IF Len(s) < smooth_length THEN s
            ELSE Vec([k \in 1..Len(s) |->
                     IF k <= smooth_length THEN FxMul(s[k], Hann(k - 1, smooth_length))
                     ELSE s[k]])
    IN  CHOOSE r \in {Smoothed(s, Clamp(Len(s) \div 100, 64, 2048)) : s \in {samples}} :
            TRUE

\* AudioWatermarker::apply_professional_audio_limiting
apply_professional_audio_limiting(samples) ==
    LET Limited(s) ==
            IF Len(s) = 0 \/ MaxAbs(s) <= FxOne THEN s
            ELSE smooth_audio_start(
                     apply_deemphasis_filter(
                         Vec([k \in 1..Len(s) |-> soft_limiter(s[k], Milli(950), Milli(200))])))
    IN  CHOOSE r \in {Limited(s) : s \in {samples}} : TRUE

\* AudioWatermarker::array_to_audio
array_to_audio(array) == apply_professional_audio_limiting(Flatten(array))

\* the three-point smoothing of apply_ultra_light_smoothing (weights 1, 1, 1, alpha
\* 0.005) and of apply_global_gentle_lowpass (weights 1, 2, 1, alpha 0.02)
ThreePoint(samples, centre, alpha) ==
    LET Smoothed(s) ==
            IF Len(s) < 3 THEN s
            ELSE Vec([k \in 1..Len(s) |->
                     IF k = 1 \/ k = Len(s) THEN s[k]
                     ELSE LET avg == RDiv(s[k - 1] + centre * s[k] + s[k + 1], 2 + centre)
                          IN  FxMul(s[k], FxOne - alpha) + FxMul(avg, alpha)])
    IN  CHOOSE r \in {Smoothed(s) : s \in {samples}} : TRUE

\* AudioWatermarker::apply_ultra_light_smoothing
apply_ultra_light_smoothing(samples) == ThreePoint(samples, 1, Milli(5))

\* the fade-in, then the fade-out over what the fade-in left, of fade_length samples
\* with the square-root window
Fade(samples, fade_length) ==
    LET FadedIn(s) ==
            Vec([k \in 1..Len(s) |->
                IF k <= Min(fade_length, Len(s))
                THEN FxMul(s[k], SqrtOfRatio(k - 1, fade_length))
                ELSE s[k]])
        FadedOut(s) ==
            Vec([k \in 1..Len(s) |->
                IF k - 1 >= Max(Len(s) - fade_length, 0)
                THEN FxMul(s[k], SqrtOfRatio(Len(s) - (k - 1), fade_length))
                ELSE s[k]])
    IN  CHOOSE r \in {FadedOut(FadedIn(s)) : s \in {samples}} : TRUE

\* the fade length of apply_light_boundary_softening for a buffer of len samples
LightFadeLength(len) == Clamp(len \div 500, 16, 128)

\* AudioWatermarker::apply_light_boundary_softening
apply_light_boundary_softening(samples) ==
    CHOOSE r \in {Fade(s, LightFadeLength(Len(s))) : s \in {samples}} : TRUE

\* step 1 of apply_minimal_audio_postprocessing: the protective normalisation
ProtectiveNormalization(samples) ==
    LET Protected(s, max_abs) ==
            IF max_abs > FxOne THEN Scaled(s, Milli(980), max_abs) ELSE s
    IN  CHOOSE r \in {Protected(s, MaxAbs(s)) : s \in {samples}} : TRUE

\* AudioWatermarker::apply_minimal_audio_postprocessing
apply_minimal_audio_postprocessing(samples) ==
    LET Processed(s) ==
            IF Len(s) = 0 THEN s
            ELSE apply_light_boundary_softening(
                     apply_ultra_light_smoothing(ProtectiveNormalization(s)))
    IN  CHOOSE r \in {Processed(s) : s \in {samples}} : TRUE

RECURSIVE SumOfSquares(_, _, _)
\* the sum of x * x over s[lo..hi], halving the range
SumOfSquares(s, lo, hi) ==
    IF lo > hi THEN 0
    ELSE IF lo = hi THEN FxMul(s[lo], s[lo])
    ELSE SumOfSquares(s, lo, (lo + hi) \div 2)
             + SumOfSquares(s, ((lo + hi) \div 2) + 1, hi)

RECURSIVE CompressionLoop(_, _)
\* the loop of apply_adaptive_compression from the window that begins at `start`
CompressionLoop(samples, start) ==
    LET Compressed(s, first, end, rms) ==
            Vec([k \in 1..Len(s) |->
                IF k > first /\ k <= end /\ rms > Milli(100)
                THEN FxMul(s[k],
                           Milli(800) + FxMul(Milli(200),
                                              Min(RDiv(Milli(100) * FxOne, rms), FxOne)))
                ELSE s[k]])
        Rms(s, first, end) ==
            ISqrtIn(RDiv(SumOfSquares(s, first + 1, end), end - first) * FxOne,
                    0, 8 * FxOne)
        OneWindow(s, first, end) ==
            CHOOSE r \in {Compressed(s, first, end, rms) : rms \in {Rms(s, first, end)}} :
                TRUE
        Loop(s) ==
            IF start >= Len(s) THEN s
            ELSE CompressionLoop(OneWindow(s, start, Min(start + 1024, Len(s))), start + 512)
    IN  CHOOSE r \in {Loop(s) : s \in {samples}} : TRUE

\* AudioWatermarker::apply_adaptive_compression
apply_adaptive_compression(samples) == CompressionLoop(samples, 0)

\* AudioWatermarker::apply_global_gentle_lowpass
apply_global_gentle_lowpass(samples) == ThreePoint(samples, 2, Milli(20))

\* AudioWatermarker::apply_boundary_smoothing
apply_boundary_smoothing(samples) ==
    CHOOSE r \in {Fade(s, Clamp(Len(s) \div 200, 32, 512)) : s \in {samples}} : TRUE

\* AudioWatermarker::apply_perceptual_limiting
apply_perceptual_limiting(samples) ==
    LET Limited(x) ==
            LET abs_val == Abs(x)
                limited == Milli(950) + FxMul(Tanh(abs_val - Milli(950)), Milli(40))
            IN  IF abs_val <= Milli(950) THEN x
                ELSE IF x >= 0 THEN limited
                ELSE -limited
    IN  CHOOSE r \in {Vec([k \in 1..Len(s) |-> Limited(s[k])]) : s \in {samples}} : TRUE

\* AudioWatermarker::apply_ultra_smooth_audio_pipeline
apply_ultra_smooth_audio_pipeline(watermarked_samples, original_samples) ==
    LET Protected(s, max_abs) ==
            IF max_abs > Milli(990) THEN Scaled(s, Milli(950), max_abs) ELSE s
        Processed(s) ==
            IF Len(s) = 0 \/ Len(original_samples) = 0
            THEN s
            ELSE apply_perceptual_limiting(
                     apply_boundary_smoothing(
                         apply_adaptive_compression(
                             apply_global_gentle_lowpass(Protected(s, MaxAbs(s))))))
    IN  CHOOSE r \in {Processed(s) : s \in {watermarked_samples}} : TRUE

\* watermarked_samples.truncate(samples.len())
Truncated(samples, len) ==
    CHOOSE r \in {IF Len(s) > len THEN SubSeq(s, 1, len) ELSE s : s \in {samples}} : TRUE

\* AudioWatermarker::ultra_gentle_embed for the algorithm of the given name; the record
\* keeps the locals data, watermarked_data and watermarked_samples (before truncate)
ultra_gentle_embed(samples, watermark_bits, name, st) ==
    LET Conditioned(s, array, watermarked_data, watermarked_samples) ==
            [kind |-> "ok", strength |-> st, data |-> array,
             watermarked_data |-> watermarked_data,
             watermarked_samples |-> watermarked_samples,
             value |-> IF name = "DCT"
                       THEN apply_minimal_audio_postprocessing(
                                Truncated(watermarked_samples, Len(s)))
                       ELSE apply_ultra_smooth_audio_pipeline(
                                Truncated(watermarked_samples, Len(s)), s)]
        Converted(s, array, watermarked_data) ==
            IF watermarked_data.kind = "err" THEN Err(watermarked_data.error)
            ELSE CHOOSE r \in {Conditioned(s, array, watermarked_data.value, ws) :
                                   ws \in {array_to_audio(watermarked_data.value)}} : TRUE
        Marked(s, array) ==
            CHOOSE r \in {Converted(s, array, wd) :
                              wd \in {IF name = "DCT"
                                      THEN embed_audio_optimized(array, watermark_bits, st, 8)
                                      ELSE DwtEmbed(array, watermark_bits, st, 1)}} : TRUE
        Prepared(s, processed_samples) ==
            IF processed_samples.kind = "err" THEN Err(processed_samples.error)
            ELSE CHOOSE r \in {Marked(s, array) :
                                   array \in {audio_to_array(processed_samples.value)}} :
                     TRUE
    IN  CHOOSE r \in {Prepared(s, prepare_samples_for_watermarking(s, name)) :
                          s \in {samples}} : TRUE

\* most payload bits of an audio embed
MaxAudioBits == 2

\* ultra_gentle_embed(&samples, &bits, algorithm, strength * 0.05), the call of
\* AudioWatermarker::embed_watermark, on quiet and on full-scale buffers
AudioEmbedCalls ==
    {[fn |-> "ultra_gentle_embed", len |-> n, loud |-> loud, name |-> name,
      nbits |-> b, strength |-> st] :
        n \in {0, 1, 30, 64, 100}, loud \in {0, FxOne}, name \in {"DCT", "DWT"},
        b \in 0..MaxAudioBits, st \in {FxOne \div 10, FxOne}}

\* most samples of a buffer that is conditioned without being embedded into
MaxConditioned == 300

\* apply_minimal_audio_postprocessing(&mut samples) on buffers whose peak is 0.5, 0.99,
\* 0.995, 1.0 or 1.2
ConditioningCalls ==
    {[fn |-> "apply_minimal_audio_postprocessing", len |-> n, peak |-> p] :
        n \in {0, 1, 2, 5, 40, 100, MaxConditioned},
        p \in {0, Milli(990), Milli(995), FxOne, Milli(1200)}}

\* prepare_samples_for_watermarking(samples, algorithm), then audio_to_array, as
\* ultra_gentle_embed and ultra_gentle_extract call them
AudioGridCalls ==
    {[fn |-> "audio_to_array(prepare_samples_for_watermarking)", len |-> n, name |-> name] :
        n \in (0..MaxSamples) \cup {64, 65, 256, MaxAudio}, name \in AlgorithmNames}

InitAudio ==
    /\ call \in AudioGridCalls \cup AudioEmbedCalls \cup ConditioningCalls
    /\ returned = NoResult
    /\ CodecIdle
    /\ TextIdle
    /\ VideoIdle
    /\ ProcIdle

\* the grid ultra_gentle_embed hands to the algorithm
AudioToArray ==
    /\ call # NoResult /\ call.fn = "audio_to_array(prepare_samples_for_watermarking)"
    /\ returned = NoResult
    /\ LET samples == AudioSamples(0, call.len)
           processed_samples == prepare_samples_for_watermarking(samples, call.name)
       IN  returned' = IF processed_samples.kind = "err"
                       THEN processed_samples
                       ELSE [kind |-> "ok", samples |-> samples,
                             value |-> audio_to_array(processed_samples.value)]
    /\ UNCHANGED call
    /\ UNCHANGED <<codecVars, textVars, videoVars, procVars>>

\* AudioWatermarker::embed_watermark, lines 54-63: the samples it writes
UltraGentleEmbed ==
    /\ call # NoResult /\ call.fn = "ultra_gentle_embed"
    /\ returned = NoResult
    /\ LET samples == AudioSamples(call.loud, call.len)
           ultra_low_strength == FxMul(call.strength, Milli(50))
       IN  returned' = ultra_gentle_embed(samples, Alternating(call.nbits, 1), call.name,
                                          ultra_low_strength)
    /\ UNCHANGED call
    /\ UNCHANGED <<codecVars, textVars, videoVars, procVars>>

\* apply_minimal_audio_postprocessing, with the buffer after each of its three steps
ApplyMinimalPostprocessing ==
    /\ call # NoResult /\ call.fn = "apply_minimal_audio_postprocessing"
    /\ returned = NoResult
    /\ LET samples == AudioSamples(call.peak, call.len)
           normalized == ProtectiveNormalization(samples)
           smoothed == apply_ultra_light_smoothing(normalized)
       IN  returned' = [samples |-> samples,
                        steps |-> IF Len(samples) = 0
                                  THEN <<>>
                                  ELSE <<normalized, smoothed,
                                         apply_light_boundary_softening(smoothed)>>,
                        fade_length |-> LightFadeLength(Len(samples)),
                        value |-> apply_minimal_audio_postprocessing(samples)]
    /\ UNCHANGED call
    /\ UNCHANGED <<codecVars, textVars, videoVars, procVars>>

NextAudio == AudioToArray \/ UltraGentleEmbed \/ ApplyMinimalPostprocessing

SpecAudio == InitAudio /\ [][NextAudio]_vars

-----------------------------------------------------------------------------
(* VideoWatermarker::extract_both: the watermark of the audio track and the vote of  *)
(* the sampled frames, and the choice between the two                                *)

\* frame results of extract_multiple_frames_watermark: the bits of "H" or of "i",
\* with quality weight 0.0 or 1.0
FusionSamples ==
    {Sample(video_string_to_bits(<<c>>, 1), q) : c \in {72, 105}, q \in {0, FxOne}}

RECURSIVE FusionLists(_)
\* the lists of at most n frame results
FusionLists(n) ==
    IF n = 0 THEN {<<>>}
    ELSE LET shorter == FusionLists(n - 1)
         IN  shorter \cup {Append(t, x) : t \in {y \in shorter : Len(y) = n - 1},
                                          x \in FusionSamples}

\* what happens to the audio of the video: there is no audio stream, extract_audio_as_wav
\* fails to start ffmpeg or ffmpeg fails, or AudioWatermarker::extract_watermark runs
\* on the extracted track and fails or returns a text
AudioOutcomes ==
    {[has_audio |-> FALSE, track |-> NoResult, watermark |-> NoResult]}
        \cup {[has_audio |-> TRUE, track |-> Err(e), watermark |-> NoResult] :
                 e \in {"Io", "ProcessingError"}}
        \cup {[has_audio |-> TRUE, track |-> Ok("extracted_audio.wav"), watermark |-> w] :
                 w \in {Err("InvalidWatermark"), Err("Audio"), Ok(<<72>>), Ok(<<105>>)}}

\* the choice of extract_both, lines 1223-1247, between the audio result, if any, and
\* the vote, always taking the audio result
FuseAlwaysAudio(audio_result, video_vote) ==
    IF audio_result = NoResult
    THEN <<video_vote.text, video_vote.confidence>>
    ELSE audio_result.value

\* the choice of extract_both, lines 1223-1247: the audio result when its confidence
\* is greater than that of the vote, the vote otherwise
Fuse(audio_result, video_vote) ==
    IF audio_result = NoResult
    THEN <<video_vote.text, video_vote.confidence>>
    ELSE IF F64Less(video_vote.confidence, audio_result.value[2])
    THEN audio_result.value
    ELSE <<video_vote.text, video_vote.confidence>>

\* VideoWatermarker::extract_both for the given outcomes of its file operations, of the
\* audio steps and of the frames
extract_both(io, audio, frame_results, expected_length) ==
    LET audio_result == IF audio.has_audio /\ audio.watermark.kind = "ok"
                        THEN Ok(<<audio.watermark.value, F64Div(1, 1)>>)
                        ELSE NoResult
        final == Fuse(audio_result, vote_watermark_bits(frame_results, expected_length))
    IN  IF io = "create_dir_all fails" THEN Err("Io")
        ELSE IF audio.has_audio /\ audio.track.kind = "err" THEN audio.track
        ELSE IF frame_results = <<>> THEN Err("ProcessingError")
        ELSE IF io = "remove_dir_all fails" THEN Err("Io")
        ELSE Ok(<<final[1], final[2], Len(frame_results)>>)

InitBoth ==
    /\ \E io \in {"ok", "create_dir_all fails", "remove_dir_all fails"},
          audio \in AudioOutcomes, frames \in FusionLists(MaxVoters), n \in {0, 1} :
          call = [fn |-> "VideoWatermarker::extract_both", io |-> io, audio |-> audio,
                  frame_results |-> frames, watermark_length |-> n]
    /\ returned = NoResult
    /\ CodecIdle
    /\ TextIdle
    /\ VideoIdle
    /\ ProcIdle

ExtractBoth ==
    /\ call # NoResult /\ call.fn = "VideoWatermarker::extract_both"
    /\ returned = NoResult
    /\ returned' = extract_both(call.io, call.audio, call.frame_results,
                                call.watermark_length)
    /\ UNCHANGED call
    /\ UNCHANGED <<codecVars, textVars, videoVars, procVars>>

NextBoth == ExtractBoth

SpecBoth == InitBoth /\ [][NextBoth]_vars

-----------------------------------------------------------------------------
(* WatermarkUtils::extract_with_voting and the debug extraction that falls back on it *)

\* most voting rounds
MaxRounds == 3

\* the algorithms passed as &dyn WatermarkAlgorithm: DctWatermark with the default and
\* with smaller block sizes, DwtWatermark with one level
VotingAlgorithms ==
    {[name |-> "DCT", block_size |-> bs] : bs \in {2, 4, 8}}
        \cup {[name |-> "DWT", levels |-> 1]}

\* algorithm.extract(data, expected_length)
AlgorithmExtract(alg, g, expected_length) ==
    IF alg.name = "DCT"
    THEN DctExtract(g, expected_length, alg.block_size)
    ELSE DwtExtract(g, expected_length, alg.levels)

RECURSIVE VoteRounds(_, _, _)
\* vote_counts after the remaining rounds, every round extracting the same `outcome`
VoteRounds(vote_counts, outcome, rounds) ==
    IF rounds = 0 THEN vote_counts
    ELSE LET counted ==
                 IF outcome.kind = "err" THEN vote_counts
                 ELSE [i \in 1..Len(vote_counts) |->
                          IF i > Len(outcome.value) THEN vote_counts[i]
                          ELSE IF outcome.value[i] = 1 THEN vote_counts[i] + 1
                          ELSE vote_counts[i] - 1]
         IN  IF Len(counted) = Len(vote_counts)
             THEN VoteRounds(counted, outcome, rounds - 1)
             ELSE vote_counts

\* WatermarkUtils::extract_with_voting, for an algorithm whose extract returns
\* `outcome` on the data every time it is called
extract_with_voting(outcome, expected_length, vote_rounds) ==
    LET vote_counts == VoteRounds([i \in 1..expected_length |-> 0], outcome, vote_rounds)
    IN  IF vote_rounds = 0 THEN outcome
        ELSE Ok([i \in 1..expected_length |-> IF vote_counts[i] > 0 THEN 1 ELSE 0])

\* WatermarkUtils::bits_to_string_lossy; the text of the length error is kept as a tag
bits_to_string_lossy(bs) ==
    IF Len(bs) % 8 # 0 THEN "length is not a multiple of 8"
    ELSE FromUtf8Lossy(ChunksToBytes(bs))

\* ImageWatermarker::extract_watermark_debug, lines 181-233, on the grid of the image
extract_watermark_debug(alg, g, text_length) ==
    LET outcome == AlgorithmExtract(alg, g, text_length * 8)
        strict == bits_to_string(outcome.value)
        voted_bits == extract_with_voting(outcome, text_length * 8, 3)
    IN  IF outcome.kind = "ok"
        THEN IF strict.kind = "ok" THEN strict
             ELSE Ok(bits_to_string_lossy(outcome.value))
        ELSE IF voted_bits.kind = "ok" THEN Ok(bits_to_string_lossy(voted_bits.value))
        ELSE outcome

InitVoting ==
    /\ \/ \E alg \in VotingAlgorithms, d \in {8, 12, 16}, n \in {0, 1, 4, 5, 6, 17},
             rounds \in 0..MaxRounds :
             call = [fn |-> "WatermarkUtils::extract_with_voting", algorithm |-> alg,
                     rows |-> d, cols |-> d, expected_length |-> n,
                     vote_rounds |-> rounds]
       \/ \E alg \in VotingAlgorithms, d \in {8, 12, 16}, n \in 0..2 :
             call = [fn |-> "ImageWatermarker::extract_watermark_debug", algorithm |-> alg,
                     rows |-> d, cols |-> d, watermark_length |-> n]
    /\ returned = NoResult
    /\ CodecIdle
    /\ TextIdle
    /\ VideoIdle
    /\ ProcIdle

\* extract_with_voting(algorithm, &data, expected_length, vote_rounds), next to what one
\* algorithm.extract(&data, expected_length) returns
ExtractWithVoting ==
    /\ call # NoResult /\ call.fn = "WatermarkUtils::extract_with_voting"
    /\ returned = NoResult
    /\ \E outcome \in {AlgorithmExtract(call.algorithm, TestGrid(3, call.rows, call.cols),
                                          call.expected_length)} :
          returned' = [extracted |-> outcome,
                       value |-> extract_with_voting(outcome, call.expected_length,
                                                     call.vote_rounds)]
    /\ UNCHANGED call
    /\ UNCHANGED <<codecVars, textVars, videoVars, procVars>>

\* extract_watermark_debug on an image whose grid is the test grid
ExtractWatermarkDebug ==
    /\ call # NoResult /\ call.fn = "ImageWatermarker::extract_watermark_debug"
    /\ returned = NoResult
    /\ \E g \in {TestGrid(3, call.rows, call.cols)} :
          returned' = [extracted |-> AlgorithmExtract(call.algorithm, g,
                                                      call.watermark_length * 8),
                       value |-> extract_watermark_debug(call.algorithm, g,
                                                         call.watermark_length)]
    /\ UNCHANGED call
    /\ UNCHANGED <<codecVars, textVars, videoVars, procVars>>

NextVoting == ExtractWithVoting \/ ExtractWatermarkDebug

SpecVoting == InitVoting /\ [][NextVoting]_vars

-----------------------------------------------------------------------------
(* Claims about the codec *)

\* the grid needs no padding for the block transform
Aligned == data.rows % block_size = 0 /\ data.cols % block_size = 0

\* C1: on a grid whose sides are multiples of the block size 8, with strength > 0,
\* extracting bits.len() bits from the output of the DCT embed returns the embedded
\* bits exactly
C1_DctRoundTrip ==
    (algorithm = "DCT" /\ Aligned /\ strength > 0 /\ extracted # NoResult)
        => extracted = Ok(watermark)

\* a DCT round trip of several bits, both bit values among them, has run
C1_Witness ==
    /\ algorithm = "DCT" /\ Aligned /\ strength > 0
    /\ Len(watermark) >= 3
    /\ extracted = Ok(watermark)

\* C2: on a power-of-two grid, with strength > 0, extracting bits.len() bits from the
\* output of the DWT embed returns the embedded bits exactly
C2_DwtRoundTrip ==
    (algorithm = "DWT" /\ strength > 0 /\ extracted # NoResult)
        => extracted = Ok(watermark)

\* C3: DCT embed succeeds for a payload of exactly ceil(w/8) * ceil(h/8) bits and fails
\* with InvalidArgument for one bit more, and the capacity check answers "fits"
\* exactly when embed succeeds
C3_DctCapacityBoundary ==
    (algorithm = "DCT" /\ embedded # NoResult) =>
        LET cap == Capacity(data.cols, data.rows, "DCT").value
        IN  /\ Len(watermark) = cap => embedded.kind = "ok"
            /\ Len(watermark) = cap + 1 =>
                   embedded.kind = "err" /\ embedded.error = "InvalidArgument"
            /\ fits = Ok(embedded.kind = "ok")

\* a full-capacity payload went into a grid that needs padding
C3_Witness ==
    /\ algorithm = "DCT" /\ ~Aligned
    /\ Len(watermark) = Capacity(data.cols, data.rows, "DCT").value
    /\ Len(watermark) >= 4
    /\ embedded.kind = "ok"

\* C4: on a power-of-two grid DWT embed succeeds for a payload of exactly
\* pad_even(w) * pad_even(h) / 4 bits and fails with InvalidArgument for one bit more,
\* and the capacity check answers "fits" exactly when embed succeeds
C4_DwtCapacityBoundary ==
    (algorithm = "DWT" /\ ~NotPowerOfTwo(data.rows, data.cols) /\ embedded # NoResult) =>
        LET cap == Capacity(data.cols, data.rows, "DWT").value
        IN  /\ Len(watermark) = cap => embedded.kind = "ok"
            /\ Len(watermark) = cap + 1 =>
                   embedded.kind = "err" /\ embedded.error = "InvalidArgument"
            /\ fits = Ok(embedded.kind = "ok")

-----------------------------------------------------------------------------
(* Claims about the text serialisation *)

\* the number of bytes of the UTF-8 form of a char
Utf8Len(cp) == IF cp < 128 THEN 1 ELSE IF cp < 2048 THEN 2 ELSE IF cp < 65536 THEN 3 ELSE 4

\* the value of bits 8(k-1)+1 .. 8k of bs read most significant bit first
MsbFirstValue(bs, k) == LET T(i) == bs[8 * (k - 1) + i] * (2 ^ (8 - i)) IN SumTo(T, 1, 8)

\* a Unicode scalar value
IsScalar(cp) == cp >= 0 /\ cp <= 1114111 /\ ~(cp >= 55296 /\ cp <= 57343)

RECURSIVE EncodesScalars(_, _)
\* bytes from position p on are the UTF-8 encodings of scalar values, one after another
EncodesScalars(bytes, p) ==
    \/ p > Len(bytes)
    \/ \E w \in 1..4 :
          /\ p + w - 1 <= Len(bytes)
          /\ IsScalar(CharAt(bytes, p, w))
          /\ Utf8Encode(CharAt(bytes, p, w)) = SubSeq(bytes, p, p + w - 1)
          /\ EncodesScalars(bytes, p + w)

\* C9: string_to_bits(s) has 8 bits per byte of s, each byte most significant bit
\* first, and bits_to_string gives s back
C9_TextRoundTrip ==
    tampered = "clean" =>
        LET L(k) == Utf8Len(text[k])
            nbytes == SumTo(L, 1, Len(text))
        IN  /\ Len(bit_vec) = 8 * nbytes
            /\ \A k \in 1..Len(bit_vec) : bit_vec[k] \in {0, 1}
            /\ \A k \in 1..nbytes : MsbFirstValue(bit_vec, k) = Utf8Bytes(text)[k]
            /\ decoded # NoResult => decoded = Ok(text)

\* a text with a four-byte char made the round trip
C9_Witness ==
    /\ tampered = "clean"
    /\ \E k \in 1..Len(text) : text[k] >= 65536
    /\ Len(text) >= 2
    /\ decoded = Ok(text)

\* C10: bits_to_string fails with InvalidWatermark when the length is no multiple of 8
\* and when the bytes are not UTF-8, and succeeds exactly when the length is a multiple
\* of 8 and the bytes are the UTF-8 form of a string, which it returns
C10_StrictDecode ==
    decoded # NoResult =>
        /\ decoded.kind = "err" => decoded.error = "InvalidWatermark"
        /\ Len(bit_vec) % 8 # 0 => decoded.kind = "err"
        /\ decoded.kind = "ok" <=>
               (Len(bit_vec) % 8 = 0 /\ EncodesScalars(ChunksToBytes(bit_vec), 1))
        /\ decoded.kind = "ok" => Utf8Bytes(decoded.value) = ChunksToBytes(bit_vec)

\* whole bytes that are not UTF-8 were refused
C10_Witness ==
    /\ tampered = "damaged"
    /\ Len(bit_vec) % 8 = 0 /\ Len(bit_vec) >= 16
    /\ decoded = Err("InvalidWatermark")

-----------------------------------------------------------------------------
(* Claims about the multi-frame extraction and the vote *)

\* the frames handled so far that yielded a text
Succeeded == {k \in 1..Len(frame_outcomes) : frame_outcomes[k].kind = "ok"}

\* the k-th successful frame is the j-th sample
RankOf(k) == Cardinality({m \in Succeeded : m <= k})

\* C6: the sampling loop drops every failed frame and keeps exactly one (bits, quality)
\* sample per successful frame; the extraction returns ProcessingError exactly when no
\* sampled frame succeeded, and otherwise Ok with the voted text, the confidence and
\* the number of frames used, whether or not the confidence is below the threshold
C6_FrameFailuresSwallowed ==
    /\ Len(results) = Cardinality(Succeeded)
    /\ \A k \in Succeeded :
          /\ Len(results[RankOf(k)].bits) = 8 * watermark_length
          /\ ChunksToBytes(results[RankOf(k)].bits) = Utf8Bytes(frame_outcomes[k].text)
          /\ results[RankOf(k)].quality = assess_frame_quality(frame_outcomes[k].gray)
    /\ video_pc = "done" =>
          /\ video_result = Err("ProcessingError") <=> Succeeded = {}
          /\ Succeeded # {} =>
                /\ voted = vote_watermark_bits(results, watermark_length)
                /\ video_result =
                       Ok(<<voted.text, voted.confidence, Cardinality(Succeeded)>>)

\* an extraction in which a frame failed, another succeeded and the confidence came
\* out below the threshold
C6_Witness ==
    /\ video_pc = "done"
    /\ \E k \in 1..Len(frame_outcomes) : frame_outcomes[k].kind # "ok"
    /\ Succeeded # {}
    /\ warned
    /\ video_result.kind = "ok"

\* the positions some sample votes on
VotedPositions ==
    LET lens == {Len(results[k].bits) : k \in 1..Len(results)}
    IN  CHOOSE n \in lens : \A m \in lens : m <= n

\* the summed weight of the samples whose bit at position i is (b = 1) or is not
WeightFor(i, b) ==
    LET W(k) == IF Len(results[k].bits) >= i /\ results[k].bits[i] = b
                THEN results[k].quality ELSE 0
    IN  SumTo(W, 1, Len(results))

RECURSIVE LcmOf(_)
\* the least common multiple of a set of positive integers
LcmOf(set) ==
    IF set = {} THEN 1
    ELSE LET x == CHOOSE y \in set : TRUE
             rest == LcmOf(set \ {x})
         IN  (x \div Gcd(x, rest)) * rest

C8_ConfidenceInUnitInterval ==
    voted # NoResult =>
        /\ ~IsNaN(voted.confidence)
        /\ 0 <= voted.confidence.num
        /\ voted.confidence.num <= voted.confidence.den

-----------------------------------------------------------------------------
(* Claims about the frame index generation *)

\* C11: for sample_count >= 1 and max_frames > skip_frames every generated index lies
\* in skip_frames .. max_frames - 1; sorted and deduplicated the indices are strictly
\* ascending, at most sample_count, and exactly sample_count when the range holds that
\* many frames; a single index is the midpoint of the range
C11_FrameIndices ==
    (/\ returned # NoResult
     /\ call.fn = "generate_sample_frame_indices"
     /\ call.sample_count >= 1
     /\ call.max_frames > call.skip_frames) =>
        LET g == returned.generated
            f == returned.frame_indices
        IN  /\ \A k \in 1..Len(g) : g[k] >= call.skip_frames /\ g[k] <= call.max_frames - 1
            /\ \A k \in 1..(Len(f) - 1) : f[k] < f[k + 1]
            /\ {f[k] : k \in 1..Len(f)} = {g[k] : k \in 1..Len(g)}
            /\ Len(f) <= call.sample_count
            /\ call.max_frames - call.skip_frames >= call.sample_count =>
                   Len(f) = call.sample_count
            /\ call.sample_count = 1 =>
                   /\ Len(g) = 1
                   /\ Abs((g[1] - call.skip_frames) - (call.max_frames - 1 - g[1])) <= 1

\* generate_indices(sample_count = 3, skip = 5, max = 12) returned 5, 8, 11
C11_Witness ==
    /\ call # NoResult /\ call.fn = "generate_sample_frame_indices"
    /\ call.sample_count = 3 /\ call.skip_frames = 5 /\ call.max_frames = 12
    /\ returned # NoResult
    /\ returned.frame_indices = <<5, 8, 11>>

-----------------------------------------------------------------------------
(* Claims about the text the extraction returns *)

\* C12: the text a video extraction returns is the strict decode of the bits it
\* recovered: it never holds replacement characters and is never cut short
C12_StrictDecodeOnly ==
    (video_pc = "done" /\ video_result.kind = "ok") =>
        bits_to_string(voted.final_bits) = Ok(video_result.value[1])

-----------------------------------------------------------------------------
(* Claims about the wavelet shape check *)

\* an exact power of two
IsPowerOfTwo(n) == \E k \in 0..n : n = 2 ^ k

\* C13: DWT embed and extract return InvalidArgument, with nothing transformed and no
\* panic, for every grid with a side that is not a power of two, 0 included; the
\* shape check passes for every grid whose sides are powers of two
C13_ShapeCheck ==
    (/\ returned # NoResult
     /\ call.fn \in {"DwtWatermark::embed", "DwtWatermark::extract"}) =>
        IF IsPowerOfTwo(call.rows) /\ IsPowerOfTwo(call.cols)
        THEN call.nbits <= Len(get_high_freq_positions(call.rows, call.cols)) =>
                 returned.kind = "ok"
        ELSE /\ returned.kind = "err"
             /\ returned.error = "InvalidArgument"
             /\ call.fn = "DwtWatermark::embed" => returned.writes = 0

-----------------------------------------------------------------------------
(* Claims about the wavelet embedding positions *)

RECURSIVE LevelsDone(_, _, _)
\* how many levels a decomposition of a rows x cols grid with `left` levels asked for
\* goes through
LevelsDone(rows, cols, left) ==
    IF left = 0 \/ rows < 2 \/ cols < 2 THEN 0
    ELSE 1 + LevelsDone(rows \div 2, cols \div 2, left - 1)

\* C14: on a power-of-two grid the embedding positions are pairwise distinct, at most
\* 48, each in the HH, HL or LH sub-band and none in the LL region of the
\* decomposition, and embed leaves every LL coefficient as it was
C14_LowBandUntouched ==
    (returned # NoResult /\ call.fn = "DwtWatermark::with_levels(lv).embed") =>
        LET pos == returned.positions
            done == LevelsDone(call.rows, call.cols, call.levels)
            ll_rows == call.rows \div (2 ^ done)
            ll_cols == call.cols \div (2 ^ done)
        IN  /\ \A a, b \in 1..Len(pos) : a # b => pos[a] # pos[b]
            /\ Len(pos) <= 48
            /\ \A a \in 1..Len(pos) :
                  /\ pos[a][1] < call.rows /\ pos[a][2] < call.cols
                  /\ pos[a][1] >= call.rows \div 2 \/ pos[a][2] >= call.cols \div 2
                  /\ ~(pos[a][1] < ll_rows /\ pos[a][2] < ll_cols)
            /\ \A i \in 1..ll_rows, j \in 1..ll_cols :
                  returned.coefficients.after[i][j] = returned.coefficients.before[i][j]

-----------------------------------------------------------------------------
(* Claims about the transforms *)

\* the smallest multiple of m that is at least n
SmallestMultiple(n, m) == CHOOSE k \in 0..(n + m) : k % m = 0 /\ k >= n /\ k - m < n

\* C15: for a grid with height, width >= 1 and a block size >= 1 the padded grid has
\* the smallest multiples of the block size that are >= the original height and width
\* as its dimensions, an aligned grid comes back with identical contents, the top-left
\* region of the padded grid is the input, unpadding gives the input back, and every
\* padded cell holds a copy of an original cell
C15_BlockPadding ==
    (returned # NoResult /\ call.fn = "pad_to_block_size") =>
        LET g == returned.input
            padded == returned.padded
            bs == call.block_size
        IN  /\ padded.rows = SmallestMultiple(g.rows, bs)
            /\ padded.cols = SmallestMultiple(g.cols, bs)
            /\ Len(padded.cells) = padded.rows
            /\ \A i \in 1..padded.rows : Len(padded.cells[i]) = padded.cols
            /\ (g.rows % bs = 0 /\ g.cols % bs = 0) => padded = g
            /\ \A i \in 1..g.rows, j \in 1..g.cols : padded.cells[i][j] = g.cells[i][j]
            /\ returned.unpadded = g
            /\ \A i \in 1..padded.rows, j \in 1..padded.cols :
                  \E oi \in 1..g.rows, oj \in 1..g.cols :
                      padded.cells[i][j] = g.cells[oi][oj]

\* a grid smaller than half a block was padded on both sides
C15_Witness ==
    /\ returned # NoResult /\ call.fn = "pad_to_block_size"
    /\ returned.padded.rows > 2 * call.rows
    /\ returned.padded.cols > call.cols
    /\ returned.unpadded = returned.input

-----------------------------------------------------------------------------
(* Claims about the capacity checks *)

\* C16: the capacity of an image is ceil(width / block_size) * ceil(height / block_size)
\* for the block transform and (pad_even(width) * pad_even(height)) / 4 for the wavelet:
\* the product is computed without wrap-around or panic, the same arguments give the
\* same capacity, and a wider or taller image never has a smaller one
C16_CapacityMonotone ==
    (/\ returned # NoResult
     /\ call.fn = "ImageWatermarker::check_watermark_capacity"
     /\ call.name \in {"DCT", "DWT"}) =>
        LET w == call.width
            h == call.height
            bs == IF call.name = "DCT" THEN call.block_size ELSE 2
        IN  /\ returned.kind = "ok"
            /\ ~CapacityU32(w, h, call.name).overflowed
            /\ returned.capacity = CapacityU32(w, h, call.name).value
            /\ (w <= 65536 /\ h <= 65536) =>
                  returned.capacity[1] * 65536 + returned.capacity[2]
                      = DivCeil(w, bs) * DivCeil(h, bs)
            /\ \A w2 \in TestDimensions, h2 \in TestDimensions :
                  (w <= w2 /\ h <= h2) =>
                      U32LessEq(returned.capacity, CapacityU32(w2, h2, call.name).value)

\* C17: a capacity query for an algorithm whose name holds neither tag fails with
\* UnsupportedFormat, for images and for audio
C17_UnknownAlgorithm ==
    (/\ returned # NoResult
     /\ call.fn \in {"ImageWatermarker::check_watermark_capacity",
                     "AudioWatermarker::check_watermark_capacity"}
     /\ call.name = "LSB") =>
        returned = Err("UnsupportedFormat")


\* two samples that differ by rounding only (2^-6 in fixed point)
WithinTolerance(a, b) == Abs(a - b) <= 16

\* C18: for every block size N of with_block_size and every N x N block,
\* idct_2d(dct_2d(block)) equals the block up to rounding: the divisor of the inverse,
\* 2 * cols, is the gain (rows / 2) * (cols / 2) of the two unnormalised transforms
C18_DctReversible ==
    (returned # NoResult /\ call.fn = "idct_2d(dct_2d)") =>
        LET n == call.block_size
        IN  /\ 4 * (2 * n) = n * n
            /\ \A i \in 1..n, j \in 1..n :
                  WithinTolerance(returned.output[i][j], returned.input[i][j])


\* C19: on a grid with power-of-two dimensions, square or not, and for every level
\* count, also one larger than log2 of the smaller dimension,
\* multilevel_inverse(multilevel_forward(grid)) equals the grid up to rounding; the
\* inverse undoes exactly the levels the forward pass transformed, and level k + 1
\* rewrites only the top-left region that level k left as its low-frequency quadrant
C19_HaarReversible ==
    (returned # NoResult /\ call.fn = "multilevel_inverse(multilevel_forward)") =>
        LET g == returned.input
            lv == call.levels
            done == LevelsDone(g.rows, g.cols, lv)
        IN  /\ returned.output.rows = g.rows /\ returned.output.cols = g.cols
            /\ \A i \in 1..g.rows, j \in 1..g.cols :
                  WithinTolerance(returned.output.cells[i][j], g.cells[i][j])
            /\ returned.coefficients = multilevel_forward(g, done)
            /\ returned.output = multilevel_inverse(returned.coefficients, done)
            /\ \A k \in 0..(done - 1) :
                  LET before == multilevel_forward(g, k).cells
                      after == multilevel_forward(g, k + 1).cells
                  IN  \A i \in 1..g.rows, j \in 1..g.cols :
                          (i > g.rows \div (2 ^ k) \/ j > g.cols \div (2 ^ k)) =>
                              after[i][j] = before[i][j]

\* a non-square grid went through fewer levels than were asked for and came back
C19_Witness ==
    /\ returned # NoResult /\ call.fn = "multilevel_inverse(multilevel_forward)"
    /\ call.rows # call.cols
    /\ LevelsDone(call.rows, call.cols, call.levels) \in 1..(call.levels - 1)
    /\ returned.coefficients # returned.input
    /\ \A i \in 1..call.rows, j \in 1..call.cols :
          WithinTolerance(returned.output.cells[i][j], returned.input.cells[i][j])

-----------------------------------------------------------------------------
(* Claims about the audio-safe embedding *)

\* the coefficient the block transform of `data` has where the idx-th bit (from 0) goes
SelectedCoefficient(idx) ==
    dct_2d(BlockAt(data, idx, block_size))[PositionOf(idx)[1] + 1][PositionOf(idx)[2] + 1]

\* C20: on a grid aligned to the block size, with strength > 0 and a payload within
\* capacity, embed_audio_optimized leaves every selected coefficient >= 0 for bit 1
\* and < 0 for bit 0, also when the coefficient was 0, and the plain DCT extractor,
\* the one audio extraction calls, returns the embedded bits exactly
C20_AudioSignPreserved ==
    (algorithm = "DCT_AUDIO" /\ Aligned /\ strength > 0 /\ embedded # NoResult) =>
        /\ embedded.kind = "ok" <=> Len(watermark) <= TotalBlocks(data, block_size)
        /\ embedded.kind = "ok" =>
              \A k \in 1..Len(watermark) :
                  LET marked == embed_audio_friendly_bit(SelectedCoefficient(k - 1),
                                                         watermark[k], strength)
                  IN  IF watermark[k] = 1 THEN marked >= 0 ELSE marked < 0
        /\ extracted # NoResult => extracted = Ok(watermark)

\* a 0 bit went into a selected coefficient that was 0, a 1 bit into a negative one
\* or a 0 bit into a positive one, and the plain extractor returned the payload
C20_Witness ==
    /\ algorithm = "DCT_AUDIO" /\ Aligned /\ strength > 0
    /\ extracted = Ok(watermark)
    /\ \E k \in 1..Len(watermark) : watermark[k] = 0 /\ SelectedCoefficient(k - 1) = 0
    /\ \E k \in 1..Len(watermark) :
          \/ watermark[k] = 1 /\ SelectedCoefficient(k - 1) < 0
          \/ watermark[k] = 0 /\ SelectedCoefficient(k - 1) > 0

-----------------------------------------------------------------------------
(* Claims about the image watermarker *)

\* C21: embedding a text T, multi-byte UTF-8 text included, and extracting with the
\* length set to the number of characters of T returns exactly T
C21_LengthInCharacters ==
    (/\ returned # NoResult
     /\ call.fn = "ImageWatermarker::embed_watermark, extract_watermark"
     /\ call.watermark_length = Len(call.watermark_text)
     /\ returned.extracted # NoResult) =>
        returned.extracted = Ok(call.watermark_text)

-----------------------------------------------------------------------------
(* Claims about concurrent invocations *)

\* what invocation t returns, and the file it leaves, when it runs alone
AloneResult(t) == IF threads[t].kind = "embed" THEN Ok(<<>>) ELSE Ok(t)

AloneOutput(t) == IF threads[t].kind = "embed" THEN AudioFile(t, t) ELSE NoResult

\* C22: invocations running concurrently on different files share no mutable state:
\* under every interleaving each returns what it returns alone and writes the output
\* it writes alone, and the files an invocation wrote and still has to read are never
\* removed or overwritten by another
C22_UnitsIndependent ==
    \A t \in DOMAIN threads :
        LET dir == TempDirOf(threads[t].kind)
        IN  /\ threads[t].pc = "returned" =>
                  /\ threads[t].result = AloneResult(t)
                  /\ threads[t].output = AloneOutput(t)
            /\ threads[t].pc = "WavReader::open" =>
                  /\ temp_dirs[dir] # NoResult
                  /\ temp_dirs[dir].normalized = InputOf(t, threads[t].kind)
            /\ threads[t].pc = "convert_to_original_format" =>
                  /\ temp_dirs[dir] # NoResult
                  /\ temp_dirs[dir].watermarked = AudioFile(t, t)


\* coefficients that differ by no more than the idct_2d / dct_2d round trip of a block
\* leaves on a coefficient that embed did not assign
Unassigned(before, after) == Abs(after - before) <= 48

\* the block index, in row-major order of 8 x 8 blocks, of cell (i, j) of a grid of `cols`
\* columns after padding
BlockOfCell(i, j, cols) == ((i - 1) \div 8) * DivCeil(cols, 8) + ((j - 1) \div 8)

\* C23: the coefficient table has 20 pairwise distinct positions, none of them (0,0), all
\* inside an 8 x 8 block; embed puts bit i into block i (row-major) at position
\* table[i mod 20], where extract reads it back; the blocks of index >= bits.len() of the
\* output equal those of the padded input, and an empty payload returns the input grid.
C23_BlockMapping ==
    /\ Len(get_mid_frequency_positions) = 20
    /\ \A a, b \in 1..20 :
           a # b => get_mid_frequency_positions[a] # get_mid_frequency_positions[b]
    /\ \A a \in 1..20 :
           /\ get_mid_frequency_positions[a] # <<0, 0>>
           /\ get_mid_frequency_positions[a][1] \in 0..7
           /\ get_mid_frequency_positions[a][2] \in 0..7
    /\ (returned # NoResult /\ call.fn = "DctWatermark::embed, extract") =>
           LET n == Len(returned.bits)
               g == returned.input
               out == returned.output.value
               aligned == g.rows % 8 = 0 /\ g.cols % 8 = 0
           IN  /\ returned.output.kind = "ok"
               /\ out.rows = g.rows /\ out.cols = g.cols
               /\ \A i \in 1..g.rows, j \in 1..g.cols :
                      BlockOfCell(i, j, g.cols) >= n =>
                          out.cells[i][j] = returned.padded.cells[i][j]
               /\ n = 0 => out = g
               /\ aligned => returned.extracted = Ok(returned.bits)
               /\ aligned =>
                      \A k \in 0..(n - 1) :
                          LET before == dct_2d(BlockAt(returned.padded, k, 8))
                              after == dct_2d(BlockAt(out, k, 8))
                              pos == get_mid_frequency_positions[(k % 20) + 1]
                          IN  /\ (after[pos[1] + 1][pos[2] + 1] >= 0)
                                     <=> (returned.bits[k + 1] = 1)
                              /\ \A a, b \in 1..8 :
                                     <<a - 1, b - 1>> # pos =>
                                         Unassigned(before[a][b], after[a][b])

\* a payload of more than 20 bits was embedded, so a position of the table was used twice
C23_Witness ==
    /\ returned # NoResult /\ call.fn = "DctWatermark::embed, extract"
    /\ Len(returned.bits) > 20
    /\ returned.output.kind = "ok"
    /\ returned.extracted = Ok(returned.bits)


-----------------------------------------------------------------------------
(* Claims about the DCT coefficient rule *)

\* the adaptive threshold embed computes for block idx of the grid
ThresholdOf(idx) ==
    calculate_adaptive_threshold(dct_2d(BlockAt(data, idx, block_size)), strength,
                                 block_size)

\* the perceptual weight embed computes for block idx of the grid
WeightOf(idx) ==
    IF calculate_block_variance(BlockAt(data, idx, block_size)) < 10 * FxOne
    THEN FxOne \div 2
    ELSE FxOne

\* the value embed assigns to the selected coefficient of block idx
MarkedCoefficient(idx) ==
    EmbedCoefficient(SelectedCoefficient(idx), watermark[idx + 1], strength,
                     ThresholdOf(idx), WeightOf(idx))

\* the magnitude max(|coeff|, threshold) * (1 + strength) for block idx
BoostedMagnitude(idx) ==
    FxMul(Max(Abs(SelectedCoefficient(idx)), ThresholdOf(idx)), FxOne + strength)

\* the embedded coefficients carry the sign of their bit: > 0 for 1, < 0 for 0
SignRule ==
    (algorithm = "DCT" /\ Aligned /\ embedded # NoResult /\ embedded.kind = "ok") =>
        \A k \in 1..Len(watermark) :
            IF watermark[k] = 1
            THEN MarkedCoefficient(k - 1) > 0
            ELSE MarkedCoefficient(k - 1) < 0

\* with strength 0 the magnitude is max(|coeff|, threshold)
NoBoostRule ==
    (algorithm = "DCT" /\ Aligned /\ embedded # NoResult /\ embedded.kind = "ok"
        /\ strength = 0) =>
        \A k \in 1..Len(watermark) :
            Abs(MarkedCoefficient(k - 1)) =
                Max(Abs(SelectedCoefficient(k - 1)), ThresholdOf(k - 1))

\* C24: after embedding, the selected coefficient of every block is positive for bit 1
\* and negative for bit 0, and its magnitude is max(|coeff|, threshold) * (1 + strength)
\* for the coefficient coeff before embedding and every strength in [0,1]
C24_CoefficientRule ==
    /\ SignRule
    /\ (algorithm = "DCT" /\ Aligned /\ embedded # NoResult /\ embedded.kind = "ok") =>
           \A k \in 1..Len(watermark) :
               Abs(Abs(MarkedCoefficient(k - 1)) - BoostedMagnitude(k - 1)) <= 2


-----------------------------------------------------------------------------
(* Claims about the length of the extracted payload *)

\* the number of embedding positions DwtWatermark::extract counts on a grid
DwtPositions(rows, cols) == Len(get_high_freq_positions(rows, cols))

\* C25: whatever the block size or the level count, an extract that returns Ok returns
\* exactly expected_length bits, each 0 or 1, and extract returns InvalidArgument
\* exactly when expected_length exceeds the number of blocks (DCT) or of embedding
\* positions (DWT)
C25_ExtractLength ==
    (returned # NoResult /\ call.fn \in {"DctWatermark::extract", "DwtWatermark::extract"}) =>
        LET over == IF call.fn = "DctWatermark::extract"
                    THEN call.expected_length >
                             (DivCeil(call.rows, call.block_size)
                                  * DivCeil(call.cols, call.block_size))
                    ELSE call.expected_length > DwtPositions(call.rows, call.cols)
        IN  /\ returned = Err("InvalidArgument") <=> over
            /\ returned.kind = "ok" =>
                   /\ Len(returned.value) = call.expected_length
                   /\ \A k \in 1..Len(returned.value) : returned.value[k] \in {0, 1}


-----------------------------------------------------------------------------
(* Claims about the audio path *)

\* the side the grid of n samples has under the pad mode of the algorithm: the smallest
\* multiple of 8, or power of two, that is >= ceil(sqrt(n))
PadModeSide(n, name) ==
    IF name = "DCT"
    THEN SmallestMultiple(CeilSqrt(n), 8)
    ELSE LET Candidates == {2 ^ e : e \in 0..10}
         IN  CHOOSE s \in Candidates :
                 /\ s >= CeilSqrt(n)
                 /\ \A t \in Candidates : t >= CeilSqrt(n) => s <= t

\* C26: for every buffer of n >= 1 samples the grid is square with the smallest side
\* >= ceil(sqrt(n)) that is a multiple of 8 (block transform) or a power of two
\* (wavelet); sample i sits at row i div side, column i mod side, none is dropped, and
\* every other cell is 0
C26_AudioGrid ==
    (returned # NoResult /\ call.fn = "audio_to_array(prepare_samples_for_watermarking)"
        /\ call.name \in {"DCT", "DWT"} /\ call.len >= 1) =>
        /\ returned.kind = "ok"
        /\ LET g == returned.value
               side == PadModeSide(call.len, call.name)
           IN  /\ g.rows = side /\ g.cols = side
               /\ \A i \in 0..(g.rows * g.cols - 1) :
                      g.cells[(i \div g.cols) + 1][(i % g.cols) + 1] =
                          IF i < call.len THEN returned.samples[i + 1] ELSE 0


\* C27: for every buffer of n samples and every algorithm the embed path returns
\* exactly n samples, and array_to_audio hands out the cells of the watermarked grid in
\* row-major order without clamping or limiting them
C27_AudioReadBack ==
    (returned # NoResult /\ call.fn = "ultra_gentle_embed" /\ returned.kind = "ok") =>
        /\ Len(returned.value) = call.len
        /\ returned.watermarked_samples = Flatten(returned.watermarked_data)


\* C28: the block-transform path embeds with strength * 0.05 and then runs peak
\* normalisation, smoothing and the boundary fade once each in this order; the peak
\* normalisation fires exactly when some |sample| > 0.99 and leaves a peak of at most
\* 0.95; the fade length lies between 16 and 512
C28_Conditioning ==
    /\ (returned # NoResult /\ call.fn = "ultra_gentle_embed" /\ returned.kind = "ok"
           /\ call.name = "DCT") =>
           /\ returned.strength = RDiv(call.strength * 5, 100)
           /\ returned.value =
                  apply_minimal_audio_postprocessing(
                      Truncated(returned.watermarked_samples, call.len))
    /\ (returned # NoResult /\ call.fn = "apply_minimal_audio_postprocessing"
           /\ call.len > 0) =>
           LET fired == returned.steps[1] # returned.samples
           IN  /\ returned.value = returned.steps[3]
               /\ fired <=> MaxAbs(returned.samples) > Milli(990)
               /\ fired => MaxAbs(returned.steps[1]) <= Milli(950)
               /\ returned.fade_length \in 16..512
               /\ \A k \in 0..MaxConditioned : LightFadeLength(500 * k) \in 16..512


-----------------------------------------------------------------------------
(* Claims about the fusion of the audio and the video result *)

\* the call ran through its file operations, and the audio track, if any, was extracted
BothRan ==
    /\ returned # NoResult /\ call.fn = "VideoWatermarker::extract_both"
    /\ call.io = "ok"
    /\ call.audio.has_audio => call.audio.track.kind = "ok"

-----------------------------------------------------------------------------
(* Claims about extraction with voting *)

\* n bits that are all 0
ZeroBits(n) == [i \in 1..n |-> 0]

\* C30: with vote_rounds >= 1 extract_with_voting never returns an error: when the
\* algorithm's extract succeeds it returns exactly the bits of one extract call, and
\* when every round fails it returns Ok with expected_length bits that are all 0; with
\* vote_rounds = 0 it returns what extract returns, its error included; so the debug
\* extraction returns Ok with the lossy text of an all-zero payload when the plain
\* extraction fails
C30_VotingNeverFails ==
    /\ (returned # NoResult /\ call.fn = "WatermarkUtils::extract_with_voting") =>
           IF call.vote_rounds = 0
           THEN returned.value = returned.extracted
           ELSE IF returned.extracted.kind = "ok"
           THEN returned.value = returned.extracted
           ELSE returned.value = Ok(ZeroBits(call.expected_length))
    /\ (returned # NoResult /\ call.fn = "ImageWatermarker::extract_watermark_debug"
           /\ returned.extracted.kind = "err") =>
           returned.value = Ok(bits_to_string_lossy(ZeroBits(call.watermark_length * 8)))

====
